---- MODULE Spec2Model ----
(***************************************************************************)
(* State engine of the preheat daemon (src/src/state/state.c,              *)
(* src/src/state/state_map.c): maps, exemaps, exes and markovs with their  *)
(* reference counts and registries, the text state file (write_state /     *)
(* read_state), the atomic save (kp_state_save) and the tolerant load      *)
(* (kp_state_load), driven by the two tick callbacks.                      *)
(* Around it the main loop of the daemon: the timers of kp_state_run, the  *)
(* signal handlers (src/src/daemon/signals.c) and the pause control        *)
(* (src/src/daemon/pause.c, src/tools/ctl_cmd_basic.c).                    *)
(*                                                                         *)
(* The singleton kp_state is one record.  Heap objects are kept in the     *)
(* record too: mapobj (kp_map_t by its (path, offset, length) triple), exe *)
(* (kp_exe_t by path) and markov (kp_markov_t by allocation id).  The hash *)
(* tables kp_state->maps and kp_state->exes are the sets maps and exes of  *)
(* the keys registered in them.  Every helper takes the record and returns *)
(* the record after the call.                                              *)
(***************************************************************************)
EXTENDS Integers, Sequences, FiniteSets, TLC

VARIABLES kp_state, kp_conf, pc, timers, stopping, disk, fresh, boots,
          pending, hung, pause_state, pausefile, clock, cycle_ops,
          blacklist, blacklist_file, call

\* the control surface: the signals sig_handler has posted to the main loop,
\* the signal whose sig_handler never returned, the pause state of the daemon
\* and the pause file, the wall clock, and what
\* the tick callbacks of the current cycle have done
ctl == <<pending, hung, pause_state, pausefile, clock, cycle_ops>>

\* outside the state and the control surface: the blacklist file, and the
\* call of a function of utils/ that is looked at on its own
aux == <<blacklist_file, call>>

vars == <<kp_state, kp_conf, pc, timers, stopping, disk, fresh, boots,
          pending, hung, pause_state, pausefile, clock, cycle_ops,
          blacklist, blacklist_file, call>>

(***************************************************************************)
(* Bounds of the model.                                                    *)
(***************************************************************************)
NumPaths == 3

MaxTime == 4

\* how many times the daemon is started
MaxBoots == 2

\* the latest kp_state->time at which a SIGHUP is delivered
MaxSighupTime == 0

\* executable paths are numbered; TinyPath is an executable below minsize
Paths == 1 .. NumPaths

TinyPath == 0

\* (path, offset, length) triples the probe can report; two regions of one
\* file and one region of another
MapKeys ==
  { [path |-> 1, offset |-> 0, length |-> 1],
    [path |-> 1, offset |-> 1, length |-> 2],
    [path |-> 2, offset |-> 0, length |-> 2] }

\* what a read of never-initialised memory can give (g_slice_new does not
\* clear): a small value and one beyond every timestamp of the model
JunkInts == {0, 99}

NullExe == -1

(***************************************************************************)
(* Partial functions and sequences.                                        *)
(***************************************************************************)
Put(f, k, v) == [x \in (DOMAIN f) \cup {k} |-> IF x = k THEN v ELSE f[x]]

Drop(f, k) == [x \in (DOMAIN f) \ {k} |-> f[x]]

EmptyFun == [x \in {} |-> 0]

SeqRemove(sq, v) == SelectSeq(sq, LAMBDA x : x # v)

\* the elements of a finite set of integers in increasing order (the model's
\* fixed iteration order for a GHashTable / GSet)
RECURSIVE SetToSeq(_)
SetToSeq(S) ==
  IF S = {} THEN <<>>
  ELSE LET m == CHOOSE x \in S : \A y \in S : x <= y
       IN <<m>> \o SetToSeq(S \ {m})

RECURSIVE Gcd(_, _)
Gcd(a, b) == IF b = 0 THEN a ELSE Gcd(b, a % b)

Abs(x) == IF x < 0 THEN -x ELSE x

\* doubles that the model needs exactly are fractions <<n, d>> in lowest terms
Rat(n, d) ==
  LET g == Gcd(Abs(n), Abs(d)) IN
  IF n = 0 THEN <<0, 1>>
  ELSE IF d < 0 THEN <<(-n) \div g, (-d) \div g>> ELSE <<n \div g, d \div g>>

RatAdd(x, y) == Rat(x[1] * y[2] + y[1] * x[2], x[2] * y[2])

RatSub(x, y) == Rat(x[1] * y[2] - y[1] * x[2], x[2] * y[2])

RatDivInt(x, k) == Rat(x[1], x[2] * k)

RatOfInt(n) == <<n, 1>>

(***************************************************************************)
(* kp_state after memset + the table constructors of kp_state_load.        *)
(***************************************************************************)
EmptyState ==
  [ time |-> 0,
    last_running_timestamp |-> 0,
    last_accounting_timestamp |-> 0,
    exe |-> EmptyFun,
    exes |-> {},
    bad_exes |-> EmptyFun,
    mapobj |-> EmptyFun,
    maps |-> {},
    maps_arr |-> <<>>,
    markov |-> EmptyFun,
    running_exes |-> <<>>,
    map_seq |-> 0,
    exe_seq |-> 0,
    dirty |-> FALSE,
    model_dirty |-> FALSE ]

\* g_return_if_fail / g_return_val_if_fail that failed: logged, call returns
Critical(s, what) == s

(***************************************************************************)
(* Maps (state_map.c / state.c, identical text).                           *)
(***************************************************************************)
kp_map_new(s, key) ==
  [s EXCEPT !.mapobj = Put(@, key, [refcount |-> 0, seq |-> 0, update_time |-> s.time])]

kp_map_free(s, key) ==
  IF s.mapobj[key].refcount # 0 THEN Critical(s, "kp_map_free")
  ELSE [s EXCEPT !.mapobj = Drop(@, key)]

\* a kp_state_register_map that numbers the map by its place in the table
kp_state_register_map_by_count(s, key) ==
  IF key \in s.maps THEN Critical(s, "kp_state_register_map")
  ELSE [s EXCEPT !.map_seq = @ + 1,
                 !.mapobj[key].seq = Cardinality(s.maps) + 1,
                 !.maps = @ \cup {key},
                 !.maps_arr = Append(@, key)]

kp_state_register_map(s, key) ==
  IF key \in s.maps THEN Critical(s, "kp_state_register_map")
  ELSE [s EXCEPT !.map_seq = @ + 1,
                 !.mapobj[key].seq = s.map_seq + 1,
                 !.maps = @ \cup {key},
                 !.maps_arr = Append(@, key)]

kp_state_unregister_map(s, key) ==
  IF key \notin s.maps THEN Critical(s, "kp_state_unregister_map")
  ELSE [s EXCEPT !.maps_arr = SeqRemove(@, key), !.maps = @ \ {key}]

kp_map_ref(s, key) ==
  LET s1 == IF s.mapobj[key].refcount = 0 THEN kp_state_register_map(s, key) ELSE s
  IN [s1 EXCEPT !.mapobj[key].refcount = @ + 1]

\* kp_map_unref that only counts down, leaving the map registered at zero
kp_map_unref_only(s, key) ==
  IF key \notin DOMAIN s.mapobj \/ s.mapobj[key].refcount <= 0 THEN s
  ELSE [s EXCEPT !.mapobj[key].refcount = @ - 1]

kp_map_unref(s, key) ==
  IF key \notin DOMAIN s.mapobj \/ s.mapobj[key].refcount <= 0
  THEN Critical(s, "kp_map_unref")
  ELSE LET s1 == [s EXCEPT !.mapobj[key].refcount = @ - 1]
       IN IF s1.mapobj[key].refcount = 0
          THEN kp_map_free(kp_state_unregister_map(s1, key), key)
          ELSE s1

kp_map_get_size(key) == key.length

\* the caller's "look the triple up in kp_state->maps, allocate it if absent"
map_lookup_or_new(s, key) ==
  IF key \in DOMAIN s.mapobj THEN s ELSE kp_map_new(s, key)

(***************************************************************************)
(* Exemaps.                                                                *)
(***************************************************************************)
One == <<1, 1>>

Zero == <<0, 1>>

kp_exemap_new(s, key) == kp_map_ref(s, key)

\* the object kp_exemap_new returns
Exemap(key) == [map |-> key, prob |-> One]

\* kp_exemap_free that forgets the kp_map_unref
kp_exemap_free_keep(s, exemap) == s

kp_exemap_free(s, exemap) == kp_map_unref(s, exemap.map)

(***************************************************************************)
(* Markovs.  state and the rows of weight / time_to_leave are indexed by   *)
(* the joint state 0..3; the tuples of the model are 1-based, hence s + 1. *)
(***************************************************************************)
\* exe_is_running of state.h: running_timestamp holds the start of the
\* current run, or -1
exe_is_running(s, p) == s.exe[p].running_timestamp >= 0

\* markov_state of state.h: bit 0 is a running, bit 1 is b running
markov_state(s, m) ==
  (IF exe_is_running(s, m.a) THEN 1 ELSE 0) + (IF exe_is_running(s, m.b) THEN 2 ELSE 0)

markov_other_exe(m, from) == IF m.a = from THEN m.b ELSE m.a

Xor1(x) == IF x % 2 = 1 THEN x - 1 ELSE x + 1

Xor2(x) == IF (x \div 2) % 2 = 1 THEN x - 2 ELSE x + 2

ZeroRow == <<0, 0, 0, 0>>

ZeroWeight == <<ZeroRow, ZeroRow, ZeroRow, ZeroRow>>

ZeroTtl == <<Zero, Zero, Zero, Zero>>

NewMarkovId(s) == CHOOSE i \in 1 .. (Cardinality(DOMAIN s.markov) + 1) : i \notin DOMAIN s.markov

\* a kp_markov_state_changed that counts the transition and not the visit
kp_markov_state_changed_transition_only(s, id) ==
  LET m == s.markov[id]
      old_state == m.state
      new_state == markov_state(s, m)
      w1 == m.weight[old_state + 1][old_state + 1] + 1
      ttl == RatAdd(m.time_to_leave[old_state + 1],
                    RatDivInt(RatSub(RatOfInt(s.time - m.change_timestamp),
                                     m.time_to_leave[old_state + 1]), w1))
      wb == [m.weight EXCEPT ![old_state + 1][new_state + 1] = @ + 1]
  IN IF m.change_timestamp = s.time THEN s
     ELSE IF old_state \notin 0 .. 3 THEN Critical(s, "markov state out of range")
     ELSE IF old_state = new_state THEN Critical(s, "kp_markov_state_changed")
     ELSE [s EXCEPT !.markov[id] =
             [m EXCEPT !.weight = wb,
                       !.time_to_leave[old_state + 1] = ttl,
                       !.state = new_state,
                       !.change_timestamp = s.time]]

kp_markov_state_changed(s, id) ==
  LET m == s.markov[id]
      old_state == m.state
      new_state == markov_state(s, m)
      w1 == m.weight[old_state + 1][old_state + 1] + 1
      ttl == RatAdd(m.time_to_leave[old_state + 1],
                    RatDivInt(RatSub(RatOfInt(s.time - m.change_timestamp),
                                     m.time_to_leave[old_state + 1]), w1))
      wa == [m.weight EXCEPT ![old_state + 1][old_state + 1] = w1]
      wb == [wa EXCEPT ![old_state + 1][new_state + 1] = @ + 1]
  IN IF m.change_timestamp = s.time THEN s
     ELSE IF old_state \notin 0 .. 3 THEN Critical(s, "markov state out of range")
     ELSE IF old_state = new_state THEN Critical(s, "kp_markov_state_changed")
     ELSE [s EXCEPT !.markov[id] =
             [m EXCEPT !.weight = wb,
                       !.time_to_leave[old_state + 1] = ttl,
                       !.state = new_state,
                       !.change_timestamp = s.time]]

\* the timestamp and state kp_markov_new(initialize = TRUE) starts from
markov_init_timestamp(s, a, b) ==
  LET ea == s.exe[a]
      eb == s.exe[b]
      t1 == IF ea.change_timestamp < s.time THEN ea.change_timestamp ELSE s.time
      t2 == IF eb.change_timestamp < s.time /\ eb.change_timestamp > t1
            THEN ea.change_timestamp ELSE t1
  IN IF ea.change_timestamp > 0 /\ eb.change_timestamp > 0 THEN t2 ELSE s.time

markov_init_state(s, a, b) ==
  LET ea == s.exe[a]
      eb == s.exe[b]
      ts == markov_init_timestamp(s, a, b)
      s0 == markov_state(s, [a |-> a, b |-> b])
      s1 == IF ea.change_timestamp > ts THEN Xor1(s0) ELSE s0
      s2 == IF eb.change_timestamp > ts THEN Xor2(s1) ELSE s1
  IN IF ea.change_timestamp > 0 /\ eb.change_timestamp > 0 THEN s2 ELSE s0

\* a kp_markov_new that does not call kp_markov_state_changed
kp_markov_new_unsettled(s, a, b, initialize, junk) ==
  IF a = NullExe \/ b = NullExe \/ a = b THEN Critical(s, "kp_markov_new")
  ELSE
    LET id == NewMarkovId(s)
        m0 == IF initialize
              THEN [a |-> a, b |-> b,
                    state |-> markov_init_state(s, a, b),
                    change_timestamp |-> markov_init_timestamp(s, a, b),
                    time |-> 0, time_to_leave |-> ZeroTtl, weight |-> ZeroWeight]
              ELSE [a |-> a, b |-> b,
                    state |-> junk, change_timestamp |-> junk,
                    time |-> junk, time_to_leave |-> ZeroTtl, weight |-> ZeroWeight]
        s1 == [s EXCEPT !.markov = Put(@, id, m0)]
        s2 == s1
    IN [s2 EXCEPT !.exe[a].markovs = @ \cup {id}, !.exe[b].markovs = @ \cup {id}]

\* junk: what the fields that initialize = FALSE leaves unset happen to hold
kp_markov_new(s, a, b, initialize, junk) ==
  IF a = NullExe \/ b = NullExe \/ a = b THEN Critical(s, "kp_markov_new")
  ELSE
    LET id == NewMarkovId(s)
        m0 == IF initialize
              THEN [a |-> a, b |-> b,
                    state |-> markov_init_state(s, a, b),
                    change_timestamp |-> markov_init_timestamp(s, a, b),
                    time |-> 0, time_to_leave |-> ZeroTtl, weight |-> ZeroWeight]
              ELSE [a |-> a, b |-> b,
                    state |-> junk, change_timestamp |-> junk,
                    time |-> junk, time_to_leave |-> ZeroTtl, weight |-> ZeroWeight]
        s1 == [s EXCEPT !.markov = Put(@, id, m0)]
        s2 == IF initialize THEN kp_markov_state_changed(s1, id) ELSE s1
    IN [s2 EXCEPT !.exe[a].markovs = @ \cup {id}, !.exe[b].markovs = @ \cup {id}]

\* kp_markov_correlation: the numerator and the square of the denominator
\* of the Pearson coefficient, or zero when an endpoint ran never or always
kp_markov_correlation(s, id) ==
  LET t == s.time
      a == s.exe[s.markov[id].a].time
      b == s.exe[s.markov[id].b].time
      ab == s.markov[id].time
  IN IF a = 0 \/ a = t \/ b = 0 \/ b = t
     THEN [zero |-> TRUE, numerator |-> 0, denominator2 |-> 1]
     ELSE [zero |-> FALSE, numerator |-> t * ab - a * b,
           denominator2 |-> (a * b) * ((t - a) * (t - b))]

\* g_assert(fabs(correlation) <= 1.00001), squared: 1.00001^2 is 1.00002
\* and 1e-10, which no pair of integers of this size can tell from 1.00002;
\* the sqrt of a negative denominator2 is NaN, and no comparison with NaN
\* holds
correlation_in_range(c) ==
  \/ c.zero
  \/ /\ c.denominator2 > 0
     /\ c.numerator * c.numerator * 100000 <= 100002 * c.denominator2

\* kp_markov_free that leaves the other exe's set alone
kp_markov_free_dangling(s, id, from) == [s EXCEPT !.markov = Drop(@, id)]

\* from = NullExe is the NULL of the source
kp_markov_free(s, id, from) ==
  LET m == s.markov[id] IN
  IF from # NullExe
  THEN IF m.a # from /\ m.b # from THEN Critical(s, "g_assert kp_markov_free")
       ELSE [s EXCEPT !.exe[markov_other_exe(m, from)].markovs = @ \ {id},
                      !.markov = Drop(@, id)]
  ELSE [s EXCEPT !.exe[m.a].markovs = @ \ {id},
                 !.exe[m.b].markovs = @ \ {id},
                 !.markov = Drop(@, id)]

(***************************************************************************)
(* Exes.                                                                   *)
(***************************************************************************)
RECURSIVE SumSizes(_)
SumSizes(exemaps) ==
  IF exemaps = <<>> THEN 0
  ELSE kp_map_get_size(Head(exemaps).map) + SumSizes(Tail(exemaps))

\* exe_add_map_size that adds nothing
exe_add_map_size_none(s, p, exemap) == s

exe_add_map_size(s, p, exemap) ==
  [s EXCEPT !.exe[p].size = @ + kp_map_get_size(exemap.map)]

\* exemaps: the pre-populated set (<<>> for NULL); junk: the pool field, which
\* kp_exe_new leaves unset
kp_exe_new(s, p, running, exemaps, junk) ==
  LET ts == IF running THEN s.last_running_timestamp ELSE -1
      e0 == [path |-> p, seq |-> 0, size |-> 0, time |-> 0,
             change_timestamp |-> s.time,
             weighted_launches |-> Zero, raw_launches |-> 0,
             total_duration_sec |-> 0,
             update_time |-> ts, running_timestamp |-> ts,
             pool |-> junk, exemaps |-> exemaps, markovs |-> {}]
  IN [s EXCEPT !.exe = Put(@, p, [e0 EXCEPT !.size = SumSizes(exemaps)])]

RECURSIVE FreeExemaps(_, _)
FreeExemaps(s, exemaps) ==
  IF exemaps = <<>> THEN s
  ELSE FreeExemaps(kp_exemap_free(s, Head(exemaps)), Tail(exemaps))

RECURSIVE FreeMarkovsFrom(_, _, _)
FreeMarkovsFrom(s, ids, from) ==
  IF ids = <<>> THEN s
  ELSE FreeMarkovsFrom(kp_markov_free(s, Head(ids), from), Tail(ids), from)

\* a kp_exe_free that frees the markovs and the exe and not the exemaps
kp_exe_free_keeps_exemaps(s, p) ==
  LET s2 == FreeMarkovsFrom(s, SetToSeq(s.exe[p].markovs), p)
  IN [s2 EXCEPT !.exe = Drop(@, p)]

kp_exe_free(s, p) ==
  LET s1 == FreeExemaps(s, s.exe[p].exemaps)
      s2 == FreeMarkovsFrom(s1, SetToSeq(s.exe[p].markovs), p)
  IN [s2 EXCEPT !.exe = Drop(@, p)]

kp_exe_map_new(s, p, key) ==
  LET s1 == kp_exemap_new(s, key)
      s2 == [s1 EXCEPT !.exe[p].exemaps = Append(@, Exemap(key))]
  IN exe_add_map_size(s2, p, Exemap(key))

RECURSIVE shift_kp_markov_new(_, _, _)
shift_kp_markov_new(s, others, b) ==
  IF others = <<>> THEN s
  ELSE LET a == Head(others)
           s1 == IF a # b THEN kp_markov_new(s, a, b, TRUE, 0) ELSE s
       IN shift_kp_markov_new(s1, Tail(others), b)

\* g_hash_table_lookup(kp_state->exes, exe): the table is keyed by path
\* strings (g_str_hash / g_str_equal) and the key handed in is the kp_exe_t
\* itself, whose bytes are no path: nothing is ever found
exes_lookup_by_struct(s, p) == FALSE

kp_state_register_exe(s, p, create_markovs) ==
  IF exes_lookup_by_struct(s, p) THEN Critical(s, "kp_state_register_exe")
  ELSE LET s1 == [s EXCEPT !.exe_seq = @ + 1, !.exe[p].seq = s.exe_seq + 1]
           s2 == IF create_markovs
                 THEN shift_kp_markov_new(s1, SetToSeq(s1.exes), p)
                 ELSE s1
       IN [s2 EXCEPT !.exes = @ \cup {p}]

kp_state_unregister_exe(s, p) ==
  IF ~exes_lookup_by_struct(s, p) THEN Critical(s, "kp_state_unregister_exe")
  ELSE LET s1 == FreeMarkovsFrom(s, SetToSeq(s.exe[p].markovs), p)
           s2 == [s1 EXCEPT !.exe[p].markovs = {}]
       IN s2

(***************************************************************************)
(* The state file.  A file is a sequence of lines; a line is its tag and   *)
(* the whitespace-separated fields after it.  A field is the text printf   *)
(* produced, kept by its kind: "int" an integer literal, "dec" a number    *)
(* written with a decimal point, "uri" a file:// URI, "ver" the version    *)
(* string, "hex" the checksum, "frac" the ".ddd" a %d leaves unread.       *)
(***************************************************************************)
POOL_PRIORITY == 0

POOL_OBSERVATION == 1

\* major version of the running build (VERSION)
VERSION_MAJOR == 1

CrcModulus == 65521

Tok(k, n, d) == [k |-> k, n |-> n, d |-> d]

RECURSIVE Pow10(_)
Pow10(k) == IF k <= 0 THEN 1 ELSE 10 * Pow10(k - 1)

\* n / d rounded to the nearest integer, halves away from zero
RoundDiv(n, d) ==
  IF n >= 0 THEN (2 * n + d) \div (2 * d) ELSE -((2 * (-n) + d) \div (2 * d))

\* the number of decimals that leave six significant digits
RECURSIVE SigDecimals(_, _)
SigDecimals(r, k) ==
  IF k >= 12 \/ k <= -12 THEN k
  ELSE IF Abs(r[1]) * Pow10(k) >= r[2] * 1000000 THEN SigDecimals(r, k - 1)
  ELSE IF Abs(r[1]) * Pow10(k) < r[2] * 100000 THEN SigDecimals(r, k + 1)
  ELSE k

\* printf("%d") / ("%lu") of an integer
FmtD(v) == Tok("int", v, 1)

\* printf("%lg"): six significant digits, no decimal point for a whole number
FmtLg(r) ==
  IF r[2] = 1 THEN Tok("int", r[1], 1)
  ELSE LET k == SigDecimals(r, 0)
           v == Rat(RoundDiv(r[1] * Pow10(k), r[2]), Pow10(k))
       IN IF v[2] = 1 THEN Tok("int", v[1], 1) ELSE Tok("dec", v[1], v[2])

\* printf("%.6f"): six decimals, always with the point
Fmt6f(r) ==
  LET v == Rat(RoundDiv(r[1] * 1000000, r[2]), 1000000)
  IN Tok("dec", v[1], v[2])

\* g_filename_to_uri: one token without whitespace for any absolute path
g_filename_to_uri(path) == Tok("uri", path, 1)

\* g_filename_from_uri: the path, or NULL (here -1) with a GError
g_filename_from_uri(tok) == IF tok.k = "uri" THEN tok.n ELSE -1

Line(tag, f) == [tag |-> tag, f |-> f]

\* sscanf over the fields: conversions "d" (%d, %lu), "f" (%lf, %lg), "s" (%s),
\* "v" (the "%d.%*[^\t]" of the header), "x" (%x).  Returns the values read
\* and the fields left; a %d that meets "12.5" reads 12 and leaves ".5".
RECURSIVE sscanf(_, _, _)
sscanf(convs, toks, got) ==
  IF convs = <<>> \/ toks = <<>> THEN [vals |-> got, rest |-> toks]
  ELSE
    LET c == Head(convs)
        t == Head(toks)
    IN CASE c = "d" /\ t.k = "int" ->
              sscanf(Tail(convs), Tail(toks), Append(got, t))
         [] c = "d" /\ t.k = "dec" ->
              sscanf(Tail(convs), <<Tok("frac", t.n, t.d)>> \o Tail(toks),
                     Append(got, Tok("int", t.n \div t.d, 1)))
         [] c = "f" /\ t.k \in {"int", "dec", "frac"} ->
              sscanf(Tail(convs), Tail(toks), Append(got, t))
         [] c = "s" ->
              sscanf(Tail(convs), Tail(toks), Append(got, t))
         [] c = "v" /\ t.k = "ver" ->
              sscanf(Tail(convs), Tail(toks), Append(got, t))
         [] c = "x" /\ t.k \in {"hex", "int"} ->
              sscanf(Tail(convs), Tail(toks), Append(got, t))
         [] OTHER -> [vals |-> got, rest |-> toks]

\* kp_crc32 over the bytes written so far: a checksum of every field of
\* every line, in order
RECURSIVE CrcToks(_, _)
CrcToks(h, toks) ==
  IF toks = <<>> THEN h
  ELSE LET h1 == (h * 31 + Abs(Head(toks).n) * 7 + Head(toks).d + Len(Head(toks).k)) % CrcModulus
       IN IF h1 >= 0 THEN CrcToks(h1, Tail(toks)) ELSE h1

RECURSIVE kp_crc32(_, _)
kp_crc32(h, lines) ==
  IF lines = <<>> THEN h
  ELSE LET h1 == (h * 131 + CrcToks(Len(Head(lines).tag), Head(lines).f)) % CrcModulus
       IN IF h1 >= 0 THEN kp_crc32(h1, Tail(lines)) ELSE h1

(***************************************************************************)
(* write_state and its callbacks.  Hash tables and sets are walked in      *)
(* increasing key order.                                                   *)
(***************************************************************************)
write_header(s) ==
  Line("PRELOAD", <<Tok("ver", VERSION_MAJOR, 1), FmtD(s.time)>>)

write_map(s, key) ==
  Line("MAP", <<FmtD(s.mapobj[key].seq), FmtD(s.mapobj[key].update_time),
                FmtD(key.offset), FmtD(key.length), FmtD(-1),
                g_filename_to_uri(key.path)>>)

write_badexe(s, p) ==
  Line("BADEXE", <<FmtD(s.bad_exes[p]), FmtD(-1), g_filename_to_uri(p)>>)

write_exe(s, p) ==
  LET e == s.exe[p] IN
  Line("EXE", <<FmtD(e.seq), FmtD(e.update_time), FmtD(e.time), FmtD(-1),
                FmtD(e.pool), Fmt6f(e.weighted_launches), FmtD(e.raw_launches),
                FmtD(e.total_duration_sec), g_filename_to_uri(e.path)>>)

write_exemap(s, p, exemap) ==
  Line("EXEMAP", <<FmtD(s.exe[p].seq), FmtD(s.mapobj[exemap.map].seq), FmtLg(exemap.prob)>>)

\* the weights written column by column
WeightFieldsTransposed(w) ==
  [i \in 1 .. 16 |-> FmtD(w[((i - 1) % 4) + 1][((i - 1) \div 4) + 1])]

WeightFields(w) ==
  [i \in 1 .. 16 |-> FmtD(w[((i - 1) \div 4) + 1][((i - 1) % 4) + 1])]

write_markov(s, id) ==
  LET m == s.markov[id] IN
  Line("MARKOV", <<FmtD(s.exe[m.a].seq), FmtD(s.exe[m.b].seq), FmtD(m.time)>>
                 \o [i \in 1 .. 4 |-> FmtLg(m.time_to_leave[i])]
                 \o WeightFields(m.weight))

\* maps in the order of their seq (any order of the hash table will do)
RECURSIVE MapsBySeq(_, _)
MapsBySeq(s, keys) ==
  IF keys = {} THEN <<>>
  ELSE LET k == CHOOSE x \in keys : \A y \in keys : s.mapobj[x].seq <= s.mapobj[y].seq
       IN <<k>> \o MapsBySeq(s, keys \ {k})

RECURSIVE Concat(_)
Concat(ss) == IF ss = <<>> THEN <<>> ELSE Head(ss) \o Concat(Tail(ss))

\* kp_exemap_foreach(write_exemap)
ExemapLines(s) ==
  Concat([i \in 1 .. Cardinality(s.exes) |->
            LET p == SetToSeq(s.exes)[i]
            IN [j \in 1 .. Len(s.exe[p].exemaps) |-> write_exemap(s, p, s.exe[p].exemaps[j])]])

\* kp_markov_foreach(write_markov): exe_markov_callback passes a markov on
\* only from its a side
MarkovsOnce(s, p) == {id \in s.exe[p].markovs : s.markov[id].a = p}

MarkovLines(s) ==
  Concat([i \in 1 .. Cardinality(s.exes) |->
            LET p == SetToSeq(s.exes)[i]
                ids == SetToSeq(MarkovsOnce(s, p))
            IN [j \in 1 .. Len(ids) |-> write_markov(s, ids[j])]])

\* everything write_state writes before the checksum footer
StateBody(s) ==
  <<write_header(s)>>
  \o [i \in 1 .. Cardinality(s.maps) |-> write_map(s, MapsBySeq(s, s.maps)[i])]
  \o [i \in 1 .. Cardinality(DOMAIN s.bad_exes) |-> write_badexe(s, SetToSeq(DOMAIN s.bad_exes)[i])]
  \o [i \in 1 .. Cardinality(s.exes) |-> write_exe(s, SetToSeq(s.exes)[i])]
  \o ExemapLines(s)
  \o MarkovLines(s)

write_crc32(body) == Line("CRC32", <<Tok("hex", kp_crc32(1, body), 1)>>)

write_state(s) == StateBody(s) \o <<write_crc32(StateBody(s))>>

(***************************************************************************)
(* read_state and its callbacks.  rc is the read_context_t: the state read *)
(* so far, the file-local tables maps and exes, and the error, "" if none. *)
(* junk is what the fields a callback leaves unset hold.                   *)
(***************************************************************************)
READ_TAG_ERROR == "invalid tag"

READ_SYNTAX_ERROR == "invalid syntax"

READ_INDEX_ERROR == "invalid index"

READ_DUPLICATE_INDEX_ERROR == "duplicate index"

READ_DUPLICATE_OBJECT_ERROR == "duplicate object"

URI_ERROR == "not a file URI"

\* markov->time = time through the NULL kp_markov_new returned
SEGV == "SIGSEGV"

TokVal(t) == IF t.k = "frac" THEN Rat(t.n % t.d, t.d) ELSE Rat(t.n, t.d)

Fail(rc, msg) == [rc EXCEPT !.errmsg = msg]

\* a read_map that looks neither in rc->maps nor in kp_state->maps
read_map_unchecked(rc, f) ==
  LET made(s1, key, update_time) ==
        kp_map_ref([s1 EXCEPT !.mapobj[key].update_time = update_time], key)
      located(v, path, key) ==
        IF path = -1 THEN Fail(rc, URI_ERROR)
        ELSE [rc EXCEPT !.s = made(kp_map_new(rc.s, key), key, v[2].n),
                        !.maps = Put(@, v[1].n, key)]
      scanned(v) ==
        IF Len(v) < 6 THEN Fail(rc, READ_SYNTAX_ERROR)
        ELSE located(v, g_filename_from_uri(v[6]),
                     [path |-> g_filename_from_uri(v[6]), offset |-> v[3].n, length |-> v[4].n])
  IN scanned(sscanf(<<"d", "d", "d", "d", "d", "s">>, f, <<>>).vals)

\* the dup checks come first here because a heap key cannot be held twice;
\* the source allocates, checks, and frees the new object on a duplicate
read_map(rc, f) ==
  LET made(s1, key, update_time) ==
        kp_map_ref([s1 EXCEPT !.mapobj[key].update_time = update_time], key)
      keyed(v, path, key) ==
        IF path = -1 THEN Fail(rc, URI_ERROR)
        ELSE IF v[1].n \in DOMAIN rc.maps THEN Fail(rc, READ_DUPLICATE_INDEX_ERROR)
        ELSE IF key \in rc.s.maps THEN Fail(rc, READ_DUPLICATE_OBJECT_ERROR)
        ELSE [rc EXCEPT !.s = made(kp_map_new(rc.s, key), key, v[2].n),
                        !.maps = Put(@, v[1].n, key)]
      located(v, path) ==
        keyed(v, path, [path |-> path, offset |-> v[3].n, length |-> v[4].n])
      scanned(v) ==
        IF Len(v) < 6 THEN Fail(rc, READ_SYNTAX_ERROR)
        ELSE located(v, g_filename_from_uri(v[6]))
  IN scanned(sscanf(<<"d", "d", "d", "d", "d", "s">>, f, <<>>).vals)

read_badexe(rc, f) == rc

\* a read_exe that knows the 9-column form only
exe_fields_new_format_only(f) ==
  LET r9 == sscanf(<<"d", "d", "d", "d", "d", "f", "d", "d", "s">>, f, <<>>).vals
  IN IF Len(r9) >= 9
     THEN [n |-> 9, i |-> r9[1].n, update_time |-> r9[2].n, time |-> r9[3].n,
           pool |-> r9[5].n, weighted_launches |-> TokVal(r9[6]),
           raw_launches |-> r9[7].n, total_duration |-> r9[8].n, uri |-> r9[9]]
     ELSE [n |-> 0]

\* the fields of an EXE line in its 9-, 6- or 5-column form; n = 0: none fits
exe_fields(f) ==
  LET r9 == sscanf(<<"d", "d", "d", "d", "d", "f", "d", "d", "s">>, f, <<>>).vals
      r6 == sscanf(<<"d", "d", "d", "d", "d", "s">>, f, <<>>).vals
      r5 == sscanf(<<"d", "d", "d", "d", "s">>, f, <<>>).vals
  IN IF Len(r9) >= 9
     THEN [n |-> 9, i |-> r9[1].n, update_time |-> r9[2].n, time |-> r9[3].n,
           pool |-> r9[5].n, weighted_launches |-> TokVal(r9[6]),
           raw_launches |-> r9[7].n, total_duration |-> r9[8].n, uri |-> r9[9]]
     ELSE IF Len(r6) >= 6
     THEN [n |-> 6, i |-> r6[1].n, update_time |-> r6[2].n, time |-> r6[3].n,
           pool |-> r6[5].n, weighted_launches |-> Zero,
           raw_launches |-> 0, total_duration |-> 0, uri |-> r6[6]]
     ELSE IF Len(r5) >= 5
     THEN [n |-> 5, i |-> r5[1].n, update_time |-> r5[2].n, time |-> r5[3].n,
           pool |-> POOL_OBSERVATION, weighted_launches |-> Zero,
           raw_launches |-> 0, total_duration |-> 0, uri |-> r5[5]]
     ELSE [n |-> 0]

read_exe(rc, f, junk) ==
  LET filled(s1, x, path) ==
        kp_state_register_exe(
          [s1 EXCEPT !.exe[path].pool = x.pool,
                     !.exe[path].weighted_launches = x.weighted_launches,
                     !.exe[path].raw_launches = x.raw_launches,
                     !.exe[path].total_duration_sec = x.total_duration,
                     !.exe[path].change_timestamp = -1,
                     !.exe[path].update_time = x.update_time,
                     !.exe[path].time = x.time],
          path, FALSE)
      located(x, path) ==
        IF path = -1 THEN Fail(rc, URI_ERROR)
        ELSE IF x.i \in DOMAIN rc.exes THEN Fail(rc, READ_DUPLICATE_INDEX_ERROR)
        ELSE IF path \in rc.s.exes THEN Fail(rc, READ_DUPLICATE_OBJECT_ERROR)
        ELSE [rc EXCEPT !.s = filled(kp_exe_new(rc.s, path, FALSE, <<>>, junk), x, path),
                        !.exes = Put(@, x.i, path)]
      scanned(x) ==
        IF x.n = 0 THEN Fail(rc, READ_SYNTAX_ERROR)
        ELSE located(x, g_filename_from_uri(x.uri))
  IN scanned(exe_fields(f))

\* a read_exemap that passes over a line whose ids it does not know
read_exemap_skips_unknown(rc, f) ==
  LET linked(s1, exe, prob) ==
        [s1 EXCEPT !.exe[exe].exemaps[Len(s1.exe[exe].exemaps)].prob = prob]
      scanned(v) ==
        IF Len(v) < 3 THEN Fail(rc, READ_SYNTAX_ERROR)
        ELSE IF v[1].n \notin DOMAIN rc.exes \/ v[2].n \notin DOMAIN rc.maps
        THEN rc
        ELSE [rc EXCEPT !.s = linked(kp_exe_map_new(rc.s, rc.exes[v[1].n], rc.maps[v[2].n]),
                                     rc.exes[v[1].n], TokVal(v[3]))]
  IN scanned(sscanf(<<"d", "d", "f">>, f, <<>>).vals)

read_exemap(rc, f) ==
  LET linked(s1, exe, prob) ==
        [s1 EXCEPT !.exe[exe].exemaps[Len(s1.exe[exe].exemaps)].prob = prob]
      scanned(v) ==
        IF Len(v) < 3 THEN Fail(rc, READ_SYNTAX_ERROR)
        ELSE IF v[1].n \notin DOMAIN rc.exes \/ v[2].n \notin DOMAIN rc.maps
        THEN Fail(rc, READ_INDEX_ERROR)
        ELSE [rc EXCEPT !.s = linked(kp_exe_map_new(rc.s, rc.exes[v[1].n], rc.maps[v[2].n]),
                                     rc.exes[v[1].n], TokVal(v[3]))]
  IN scanned(sscanf(<<"d", "d", "f">>, f, <<>>).vals)

read_markov(rc, f, junk) ==
  LET id == NewMarkovId(rc.s)
      filled(s1, time, r2, r3) ==
        IF Len(r2.vals) < 4 \/ Len(r3.vals) < 16
        THEN [rc EXCEPT !.s = kp_markov_free(s1, id, NullExe), !.errmsg = READ_SYNTAX_ERROR]
        ELSE [rc EXCEPT !.s =
                [s1 EXCEPT !.markov[id].time = time,
                           !.markov[id].time_to_leave = [i \in 1 .. 4 |-> TokVal(r2.vals[i])],
                           !.markov[id].weight =
                             [i \in 1 .. 4 |-> [j \in 1 .. 4 |-> r3.vals[(i - 1) * 4 + j].n]]]]
      weights(s1, time, r2) ==
        filled(s1, time, r2, sscanf([i \in 1 .. 16 |-> "d"], r2.rest, <<>>))
      created(s1, a, b, time, rest) ==
        IF a = b THEN [rc EXCEPT !.s = s1, !.errmsg = SEGV]
        ELSE weights(s1, time, sscanf(<<"f", "f", "f", "f">>, rest, <<>>))
      indexed(a, b, time, rest) ==
        created(kp_markov_new(rc.s, a, b, FALSE, junk), a, b, time, rest)
      scanned(r1) ==
        IF Len(r1.vals) < 3 THEN Fail(rc, READ_SYNTAX_ERROR)
        ELSE IF r1.vals[1].n \notin DOMAIN rc.exes \/ r1.vals[2].n \notin DOMAIN rc.exes
        THEN Fail(rc, READ_INDEX_ERROR)
        ELSE indexed(rc.exes[r1.vals[1].n], rc.exes[r1.vals[2].n], r1.vals[3].n, r1.rest)
  IN scanned(sscanf(<<"d", "d", "d">>, f, <<>>))

read_crc32(rc, f) == rc

\* the PRELOAD branch of read_state
read_header(rc, f) ==
  LET v == sscanf(<<"v", "d">>, f, <<>>).vals IN
  IF rc.lineno # 1 \/ Len(v) < 2 THEN Fail(rc, READ_SYNTAX_ERROR)
  ELSE IF VERSION_MAJOR # v[1].n THEN [rc EXCEPT !.stop = TRUE]
  ELSE [rc EXCEPT !.s.time = v[2].n, !.s.last_accounting_timestamp = v[2].n]

\* one pass of the while loop of read_state, the line already counted
read_line(rc, line, junk) ==
  IF line.tag = "" THEN Fail(rc, READ_TAG_ERROR)
  ELSE IF rc.lineno = 1 /\ line.tag # "PRELOAD" THEN [rc EXCEPT !.stop = TRUE]
  ELSE CASE line.tag = "PRELOAD" -> read_header(rc, line.f)
         [] line.tag = "MAP" -> read_map(rc, line.f)
         [] line.tag = "BADEXE" -> read_badexe(rc, line.f)
         [] line.tag = "EXE" -> read_exe(rc, line.f, junk)
         [] line.tag = "EXEMAP" -> read_exemap(rc, line.f)
         [] line.tag = "MARKOV" -> read_markov(rc, line.f, junk)
         [] line.tag = "CRC32" -> read_crc32(rc, line.f)
         [] line.tag = "#" -> rc
         [] OTHER -> Fail(rc, READ_TAG_ERROR)

RECURSIVE read_lines(_, _, _)
read_lines(rc, lines, junk) ==
  IF lines = <<>> \/ rc.errmsg # "" \/ rc.stop THEN rc
  ELSE read_lines(read_line([rc EXCEPT !.lineno = @ + 1], Head(lines), junk),
                  Tail(lines), junk)

\* g_hash_table_destroy(rc.maps): kp_map_unref on every value
RECURSIVE destroy_rc_maps(_, _)
destroy_rc_maps(s, keys) ==
  IF keys = <<>> THEN s
  ELSE destroy_rc_maps(kp_map_unref(s, Head(keys)), Tail(keys))

set_running_process_callback(s, path, time) ==
  IF path \in s.exes
  THEN [s EXCEPT !.exe[path].running_timestamp = time,
                 !.running_exes = <<path>> \o @]
  ELSE s

RECURSIVE kp_proc_foreach_running(_, _, _)
kp_proc_foreach_running(s, procs, time) ==
  IF procs = <<>> THEN s
  ELSE kp_proc_foreach_running(set_running_process_callback(s, Head(procs), time),
                               Tail(procs), time)

\* a set_markov_state_callback that leaves the state as read_markov left it
set_markov_state_callback_leaves_state(s, id) == s

set_markov_state_callback(s, id) ==
  [s EXCEPT !.markov[id].state = markov_state(s, s.markov[id])]

RECURSIVE set_markov_states(_, _)
set_markov_states(s, ids) ==
  IF ids = <<>> THEN s
  ELSE set_markov_states(set_markov_state_callback(s, Head(ids)), Tail(ids))

\* every markov once, as kp_markov_foreach finds them
AllMarkovsOnce(s) == UNION {MarkovsOnce(s, p) : p \in s.exes}

\* procs: the running processes (one path per pid) the probe reports
read_state(s0, lines, procs, junk) ==
  LET rc0 == [s |-> s0, maps |-> EmptyFun, exes |-> EmptyFun,
              errmsg |-> "", lineno |-> 0, stop |-> FALSE]
      running(s1) == kp_proc_foreach_running(s1, procs, s1.time)
      stamped(s2) == [s2 EXCEPT !.last_running_timestamp = s2.time]
      settled(s3) == set_markov_states(s3, SetToSeq(AllMarkovsOnce(s3)))
      cleaned(rc1) ==
        destroy_rc_maps(rc1.s, [i \in 1 .. Cardinality(DOMAIN rc1.maps) |->
                                  rc1.maps[SetToSeq(DOMAIN rc1.maps)[i]]])
      result(rc1, s1) ==
        IF rc1.errmsg = SEGV THEN [s |-> rc1.s, errmsg |-> SEGV]
        ELSE IF rc1.errmsg # "" THEN [s |-> s1, errmsg |-> rc1.errmsg]
        ELSE [s |-> settled(stamped(running(s1))), errmsg |-> ""]
      finished(rc1) == result(rc1, cleaned(rc1))
  IN finished(read_lines(rc0, lines, junk))

(***************************************************************************)
(* kp_state_load.                                                          *)
(***************************************************************************)
NoFile == [exists |-> FALSE, lines |-> <<>>]

File(lines) == [exists |-> TRUE, lines |-> lines]

RECURSIVE seed_exes(_, _, _)
seed_exes(s, paths, seeds) ==
  IF paths = <<>> THEN s
  ELSE LET p == Head(paths)
           s1 == IF p \in s.exes THEN s
                 ELSE kp_state_register_exe(kp_exe_new(s, p, FALSE, <<>>, seeds[p]), p, FALSE)
       IN seed_exes(s1, Tail(paths), seeds)

\* seeds: the candidate paths the desktop entries, the whitelist and the
\* process snapshot give, each with its pool
kp_seed_from_sources(s, seeds) == seed_exes(s, SetToSeq(DOMAIN seeds), seeds)

\* the outcome of kp_state_load on the file at statefile: the state, whether
\* the file was renamed aside, and whether the process died in read_markov
kp_state_load(statefile, procs, seeds, junk) ==
  LET corrupt(r) == statefile.exists /\ r.errmsg # ""
      state_was_empty(r) == ~statefile.exists \/ corrupt(r)
      seeded(r, s1) ==
        IF state_was_empty(r) \/ s1.exes = {} THEN kp_seed_from_sources(s1, seeds) ELSE s1
      loaded(r) ==
        [s |-> seeded(r, IF statefile.exists THEN r.s ELSE EmptyState),
         quarantined |-> corrupt(r) /\ r.errmsg # SEGV,
         died |-> statefile.exists /\ r.errmsg = SEGV]
  IN loaded(read_state(EmptyState, statefile.lines, procs, junk))

\* handle_corrupt_statefile: rename(statefile, statefile.broken.<ts>)
handle_corrupt_statefile(d) == [d EXCEPT !.broken = d.state, !.state = NoFile]

(***************************************************************************)
(* kp_state_register_manual_apps; apps is kp_conf->system.manual_apps_loaded *)
(* and junk the pool field that kp_exe_new leaves unset.                   *)
(***************************************************************************)
RECURSIVE register_manual(_, _, _)
register_manual(s, apps, junk) ==
  IF apps = <<>> THEN s
  ELSE LET p == Head(apps)
           s1 == IF p \in s.exes THEN s
                 ELSE [kp_state_register_exe(kp_exe_new(s, p, FALSE, <<>>, junk), p, FALSE)
                         EXCEPT !.dirty = TRUE]
       IN register_manual(s1, Tail(apps), junk)

kp_state_register_manual_apps(s, apps, junk) == register_manual(s, SetToSeq(apps), junk)

(***************************************************************************)
(* Scanner and model updater (kp_spy_scan, kp_spy_update_model).           *)
(* now: the paths running, TinyPath among them or not; probe: the map      *)
(* triples each path has mapped.                                           *)
(***************************************************************************)
RECURSIVE exemaps_new(_, _)
exemaps_new(s, keys) ==
  IF keys = <<>> THEN s
  ELSE exemaps_new(kp_exemap_new(map_lookup_or_new(s, Head(keys)), Head(keys)), Tail(keys))

KeySeq(keys) == MapsBySeq([mapobj |-> [k \in keys |-> [seq |-> k.path * 4 + k.offset]]], keys)

\* step 3: an unknown path is created with its exemaps and registered
scan_new_exe(s, p, keys) ==
  LET s1 == exemaps_new(s, KeySeq(keys))
      s2 == kp_exe_new(s1, p, TRUE, [i \in 1 .. Cardinality(keys) |-> Exemap(KeySeq(keys)[i])],
                       POOL_OBSERVATION)
  IN kp_state_register_exe(s2, p, TRUE)

RECURSIVE attach_maps(_, _, _)
attach_maps(s, p, keys) ==
  IF keys = <<>> THEN s
  ELSE attach_maps(kp_exe_map_new(map_lookup_or_new(s, Head(keys)), p, Head(keys)),
                   p, Tail(keys))

ExeMapKeys(s, p) == {s.exe[p].exemaps[i].map : i \in 1 .. Len(s.exe[p].exemaps)}

\* steps 3 and 4 for one running path
scan_exe(s, p, probe) ==
  IF p \notin s.exes THEN scan_new_exe(s, p, probe.early[p])
  ELSE attach_maps(s, p, KeySeq(probe.late[p] \ ExeMapKeys(s, p)))

RECURSIVE scan_exes(_, _, _)
scan_exes(s, ps, probe) ==
  IF ps = <<>> THEN s
  ELSE scan_exes(scan_exe(s, Head(ps), probe), Tail(ps), probe)

\* step 5 for one exe whose running state changed
exe_changed(s, p, started) ==
  IF started
  THEN [s EXCEPT !.exe[p].change_timestamp = s.time,
                 !.exe[p].running_timestamp = s.time]
  ELSE [s EXCEPT !.exe[p].change_timestamp = s.time,
                 !.exe[p].total_duration_sec = @ + (s.time - s.exe[p].running_timestamp),
                 !.exe[p].raw_launches = @ + 1,
                 !.exe[p].running_timestamp = -1]

RECURSIVE exes_changed(_, _, _)
exes_changed(s, ps, started) ==
  IF ps = <<>> THEN s
  ELSE exes_changed(exe_changed(s, Head(ps), started), Tail(ps), started)

RECURSIVE markovs_changed(_, _)
markovs_changed(s, ids) ==
  IF ids = <<>> THEN s
  ELSE markovs_changed(kp_markov_state_changed(s, Head(ids)), Tail(ids))

SeqSet(sq) == {sq[i] : i \in 1 .. Len(sq)}

kp_spy_scan(s, now, probe) ==
  LET running_now == now \cap Paths
      was == SeqSet(s.running_exes)
      s1 == IF TinyPath \in now THEN [s EXCEPT !.bad_exes = Put(@, TinyPath, s.time)] ELSE s
      s2 == scan_exes(s1, SetToSeq(running_now), probe)
      started == running_now \ was
      stopped == was \ running_now
      s3 == exes_changed(exes_changed(s2, SetToSeq(started), TRUE), SetToSeq(stopped), FALSE)
      changed == UNION {s3.exe[p].markovs : p \in started \cup stopped}
      s4 == markovs_changed(s3, SetToSeq(changed))
  IN [s4 EXCEPT !.running_exes = SetToSeq(running_now),
                !.last_running_timestamp = s.time]

RECURSIVE run_exes(_, _, _)
run_exes(s, ps, dt) ==
  IF ps = <<>> THEN s
  ELSE run_exes([s EXCEPT !.exe[Head(ps)].time = @ + dt], Tail(ps), dt)

RECURSIVE run_markovs(_, _, _)
run_markovs(s, ids, dt) ==
  IF ids = <<>> THEN s
  ELSE run_markovs(IF s.markov[Head(ids)].state = 3
                   THEN [s EXCEPT !.markov[Head(ids)].time = @ + dt] ELSE s,
                   Tail(ids), dt)

kp_spy_update_model(s, cycle) ==
  run_markovs(run_exes(s, s.running_exes, cycle \div 2),
              SetToSeq(DOMAIN s.markov), cycle \div 2)

(***************************************************************************)
(* The daemon: inputs of the environment.                                  *)
(***************************************************************************)
K1 == [path |-> 1, offset |-> 0, length |-> 1]

K2 == [path |-> 1, offset |-> 1, length |-> 2]

K3 == [path |-> 2, offset |-> 0, length |-> 2]

\* what /proc/<pid>/maps lists for each executable: when it is first seen,
\* and from the next scan on
ProbeEarly == [p \in Paths |-> IF p = 1 THEN {K1} ELSE IF p = 2 THEN {K2} ELSE {}]

ProbeLate == [p \in Paths |-> IF p = 1 THEN {K1, K2} ELSE IF p = 2 THEN {K2, K3} ELSE {K3}]

Probes == {[early |-> ProbeEarly, late |-> ProbeLate]}

\* sets of running executables a scan may meet
Scans == {{}, {1}, {1, 2}, {TinyPath, 2, NumPaths}, Paths}

\* the seeding sources
SeedSets == {EmptyFun, [p \in {1, 2} |-> IF p = 1 THEN POOL_PRIORITY ELSE POOL_OBSERVATION]}

\* process lists kp_proc_foreach_running walks at load: one entry per pid
ProcLists == {<<>>, <<1, 2, 2>>}

ManualApps == {{NumPaths}}

Confs == {[cycle |-> 2, doscan |-> TRUE, dopredict |-> TRUE]}

(***************************************************************************)
(* Actions.                                                                *)
(***************************************************************************)
(***************************************************************************)
(* Pause control (src/src/daemon/pause.c).  p is the pair of the daemon's  *)
(* static pause_state (st) and the file /run/preheat.pause (file); now is  *)
(* time(NULL).  The file holds the expiry as printf("%ld\n") writes it and *)
(* fscanf("%ld") reads it back: an integer either way.                     *)
(***************************************************************************)
\* static struct pause_state = {0}
PauseZero == [active |-> FALSE, expiry |-> 0, initialized |-> FALSE]

NoPauseFile == [exists |-> FALSE, expiry |-> 0]

PauseFile(expiry) == [exists |-> TRUE, expiry |-> expiry]

NotPaused(st) == [st EXCEPT !.active = FALSE, !.expiry = -1]

load_pause_file(p, now) ==
  IF ~p.file.exists THEN [p EXCEPT !.st = NotPaused(@)]
  ELSE IF p.file.expiry = 0 THEN [p EXCEPT !.st.active = TRUE, !.st.expiry = 0]
  ELSE IF p.file.expiry > now
  THEN [p EXCEPT !.st.active = TRUE, !.st.expiry = p.file.expiry]
  ELSE [p EXCEPT !.st = NotPaused(@), !.file = NoPauseFile]

kp_pause_init(p, now) == load_pause_file([p EXCEPT !.st.initialized = TRUE], now)

\* a kp_pause_clear that leaves the file behind
kp_pause_clear_keeps_file(p) == [p EXCEPT !.st = NotPaused(@)]

\* unlink(PAUSE_FILE): whatever file is there goes
kp_pause_clear(p) == [p EXCEPT !.st = NotPaused(@), !.file = NoPauseFile]

\* the pair after the call, and ret: what the call returns
kp_pause_is_active(p, now) ==
  LET answer(p1) ==
        IF ~p1.st.active THEN [p |-> p1, ret |-> FALSE]
        ELSE IF p1.st.expiry = 0 THEN [p |-> p1, ret |-> TRUE]
        ELSE IF now >= p1.st.expiry THEN [p |-> kp_pause_clear(p1), ret |-> FALSE]
        ELSE [p |-> p1, ret |-> TRUE]
  IN answer(IF ~p.st.initialized THEN kp_pause_init(p, now) ELSE p)

\* cmd_pause of preheat-ctl: seconds = 0 is until reboot
cmd_pause(seconds, now) == PauseFile(IF seconds = 0 THEN 0 ELSE now + seconds)

\* cmd_resume of preheat-ctl: unlink(PAUSEFILE)
cmd_resume == NoPauseFile

(***************************************************************************)
(* The blacklist (config/blacklist.c).  Text is a sequence of characters;  *)
(* the file is its mtime in seconds and its lines, each written without    *)
(* the newline that ends it.                                               *)
(***************************************************************************)
BLACKLIST_LINE_MAX == 256

\* the static blacklist = {0}; a table never made holds nothing
BlacklistZero == [entries |-> {}, filepath |-> "", last_modified |-> 0, count |-> 0]

BLACKLIST_FILE == "/etc/preheat.d/blacklist"

NoBlacklistFile == [exists |-> FALSE, mtime |-> 0, lines |-> <<>>]

g_ascii_isspace(c) == c \in {" ", "\t", "\n", "\r", "\f"}

g_ascii_isalnum(c) ==
  c \in {"a", "b", "c", "d", "e", "f", "g", "h", "i", "j", "k", "l", "m",
         "n", "o", "p", "q", "r", "s", "t", "u", "v", "w", "x", "y", "z",
         "A", "B", "C", "D", "E", "F", "G", "H", "I", "J", "K", "L", "M",
         "N", "O", "P", "Q", "R", "S", "T", "U", "V", "W", "X", "Y", "Z",
         "0", "1", "2", "3", "4", "5", "6", "7", "8", "9"}

\* the bytes of the file: every line and its newline
RECURSIVE FileText(_)
FileText(lines) ==
  IF lines = <<>> THEN <<>> ELSE Head(lines) \o <<"\n">> \o FileText(Tail(lines))

\* how many characters one fgets(line, size, fp) takes off the text: through
\* the first newline, and size - 1 at most
fgets_length(text, size) ==
  LET ends == {i \in 1 .. Len(text) : text[i] = "\n"}
      nl == IF ends = {} THEN Len(text) ELSE CHOOSE i \in ends : \A j \in ends : i <= j
  IN IF nl <= size - 1 THEN nl ELSE size - 1

\* while (*p && g_ascii_isspace(*p)) p++
RECURSIVE skip_leading(_)
skip_leading(p) ==
  IF p # <<>> /\ g_ascii_isspace(Head(p)) THEN skip_leading(Tail(p)) ELSE p

\* while (end > p && g_ascii_isspace(*end)) *end-- = '\0'
RECURSIVE remove_trailing(_)
remove_trailing(p) ==
  IF Len(p) > 1 /\ g_ascii_isspace(p[Len(p)])
  THEN remove_trailing(SubSeq(p, 1, Len(p) - 1))
  ELSE p

\* the validation loop of load_blacklist_file
valid_entry(p) ==
  \A i \in 1 .. Len(p) : g_ascii_isalnum(p[i]) \/ p[i] \in {"_", "-", "."}

\* the while (fgets(...)) loop of load_blacklist_file over what is left of
\* the file; t is the table and the count of entries loaded
RECURSIVE read_blacklist_lines(_, _)
read_blacklist_lines(t, text) ==
  IF text = <<>> THEN t
  ELSE LET n == fgets_length(text, BLACKLIST_LINE_MAX)
           rest == SubSeq(text, n + 1, Len(text))
           p == skip_leading(SubSeq(text, 1, n))
           entry == remove_trailing(p)
       IN IF p = <<>> \/ Head(p) = "#" THEN read_blacklist_lines(t, rest)
          ELSE IF Len(entry) >= BLACKLIST_LINE_MAX - 1 THEN read_blacklist_lines(t, rest)
          ELSE IF ~valid_entry(entry) THEN read_blacklist_lines(t, rest)
          ELSE read_blacklist_lines([entries |-> t.entries \cup {entry},
                                     loaded |-> t.loaded + 1], rest)

\* load_blacklist_file(blacklist.filepath); opens is whether fopen succeeds
load_blacklist_file(bl, file, opens) ==
  LET cleared == [bl EXCEPT !.entries = {}, !.count = 0]
      t == read_blacklist_lines([entries |-> {}, loaded |-> 0], FileText(file.lines))
  IN IF ~file.exists THEN cleared
     ELSE IF ~opens THEN [cleared EXCEPT !.last_modified = file.mtime]
     ELSE [cleared EXCEPT !.last_modified = file.mtime,
                          !.entries = t.entries,
                          !.count = t.loaded]

kp_blacklist_init(bl, file, opens) ==
  load_blacklist_file([bl EXCEPT !.filepath = BLACKLIST_FILE], file, opens)

\* a kp_blacklist_reload that loads whenever it is called
kp_blacklist_reload_ungated(bl, file, opens) ==
  IF bl.filepath = "" THEN kp_blacklist_init(bl, file, opens)
  ELSE load_blacklist_file(bl, file, opens)

kp_blacklist_reload(bl, file, opens) ==
  IF bl.filepath = "" THEN kp_blacklist_init(bl, file, opens)
  ELSE IF file.exists /\ file.mtime = bl.last_modified THEN bl
  ELSE load_blacklist_file(bl, file, opens)

(***************************************************************************)
(* kp_path_in_directories (utils/pattern.c) on its own.                    *)
(***************************************************************************)
\* strncmp(path, prefix, strlen(prefix)) == 0
strncmp_equal(path, prefix) ==
  /\ Len(path) >= Len(prefix)
  /\ SubSeq(path, 1, Len(prefix)) = prefix

\* the '\0' that ends a string
NUL == "NUL"

\* a char * that is NULL
NullString == <<"NULL">>

\* path[prefix_len]
char_at(path, prefix_len) ==
  IF prefix_len < Len(path) THEN path[prefix_len + 1] ELSE NUL

kp_path_in_directories(path, prefixes, count) ==
  /\ path # NullString
  /\ \E i \in 1 .. count :
       /\ prefixes[i] # NullString
       /\ strncmp_equal(path, prefixes[i])
       /\ char_at(path, Len(prefixes[i])) \in {NUL, "/"}

\* no call is looked at
NoCall == [fn |-> "", args |-> <<>>, returned |-> FALSE, result |-> FALSE]

(***************************************************************************)
(* The daemon.  timers counts the timeout sources attached to the main     *)
(* loop, by callback; pending lists the sig_handler_sync sources that      *)
(* sig_handler has attached, oldest first.                                 *)
(***************************************************************************)
NoTimers == [kp_state_tick |-> 0, kp_state_tick2 |-> 0, kp_state_autosave |-> 0]

\* kp_state_run: g_timeout_add(0, kp_state_tick), and the autosave timer
kp_state_run == [NoTimers EXCEPT !.kp_state_tick = 1, !.kp_state_autosave = 1]

\* SIGTERM stands for SIGINT and SIGQUIT too: the default case
Signals == {"SIGHUP", "SIGUSR1", "SIGUSR2", "SIGTERM"}

Init ==
  /\ kp_state = EmptyState
  /\ kp_conf \in Confs
  /\ pc = "down"
  /\ timers = NoTimers
  /\ stopping = FALSE
  /\ disk = [state |-> NoFile, tmp |-> NoFile, broken |-> NoFile]
  /\ fresh = FALSE
  /\ boots = 0
  /\ pending = <<>>
  /\ hung = ""
  /\ pause_state = PauseZero
  /\ pausefile = NoPauseFile
  /\ clock = 0
  /\ cycle_ops = <<>>
  /\ blacklist = BlacklistZero
  /\ blacklist_file = NoBlacklistFile
  /\ call = NoCall

\* the process is gone: its memory, its main loop and its static pause_state
\* and blacklist with it; the files and the clock stay as they are
ProcessEnds ==
  /\ kp_state' = EmptyState
  /\ pc' = "down"
  /\ timers' = NoTimers
  /\ stopping' = FALSE
  /\ fresh' = FALSE
  /\ pending' = <<>>
  /\ hung' = ""
  /\ pause_state' = PauseZero
  /\ cycle_ops' = <<>>
  /\ blacklist' = BlacklistZero
  /\ UNCHANGED <<boots, kp_conf, disk, pausefile, clock, aux>>

\* what kp_state_load can make of a file, over the process lists, the
\* seeding sources and the contents of unset fields
LoadOutcomesOver(statefile, procLists, seedSets, junks) ==
  {kp_state_load(statefile, procs, seeds, junk) :
     procs \in procLists, seeds \in seedSets, junk \in junks}

LoadOutcomes(statefile) == LoadOutcomesOver(statefile, ProcLists, SeedSets, JunkInts)

\* main: kp_blacklist_init, kp_state_load, then kp_state_run queues the first
\* kp_state_tick and the autosave
StartFrom(outcomes) ==
  /\ pc = "down"
  /\ boots < MaxBoots
  /\ boots' = boots + 1
  /\ \E r \in outcomes, opens \in BOOLEAN :
       /\ kp_state' = IF r.died THEN EmptyState ELSE r.s
       /\ pc' = IF r.died THEN "down" ELSE "run"
       /\ timers' = IF r.died THEN NoTimers ELSE kp_state_run
       /\ disk' = IF r.quarantined THEN handle_corrupt_statefile(disk) ELSE disk
       /\ blacklist' = IF r.died THEN BlacklistZero
                       ELSE kp_blacklist_init(blacklist, blacklist_file, opens)
  /\ fresh' = FALSE
  /\ UNCHANGED <<kp_conf, stopping>>
  /\ UNCHANGED <<ctl, aux>>

Start == StartFrom(LoadOutcomes(disk.state))

\* a kp_state_tick that predicts without asking kp_pause_is_active
predict_ops_unpaused(paused, in_boot_window) ==
  (IF in_boot_window THEN <<"kp_session_preload_top_apps">> ELSE <<>>)
  \o <<"kp_prophet_predict">>

\* what kp_state_tick does after the scan: the pause check, the session
\* boost inside the boot window, the prediction
predict_ops(paused, in_boot_window) ==
  IF paused THEN <<>>
  ELSE (IF in_boot_window THEN <<"kp_session_preload_top_apps">> ELSE <<>>)
       \o <<"kp_prophet_predict">>

\* kp_state_tick arming kp_state_tick again
tick_rearms_itself(t) == t

\* kp_state_tick returns FALSE and arms kp_state_tick2
tick_arms(t) == [t EXCEPT !.kp_state_tick = @ - 1, !.kp_state_tick2 = @ + 1]

\* kp_state_tick2 returns FALSE and arms kp_state_tick
tick2_arms(t) == [t EXCEPT !.kp_state_tick2 = @ - 1, !.kp_state_tick = @ + 1]

\* a kp_state_tick that marks the state and the model dirty whether it
\* scanned or not
kp_state_tick_marks_always(scans, windows) ==
  /\ pc = "run" /\ ~stopping /\ timers.kp_state_tick > 0
  /\ kp_state.time + kp_conf.cycle <= MaxTime
  /\ \E now \in scans, probe \in Probes, in_boot_window \in windows :
       LET scanned == IF kp_conf.doscan
                      THEN [kp_spy_scan(kp_state, now, probe)
                              EXCEPT !.dirty = TRUE, !.model_dirty = TRUE]
                      ELSE [kp_state EXCEPT !.dirty = TRUE, !.model_dirty = TRUE]
           checked(r) ==
             /\ pause_state' = r.p.st
             /\ pausefile' = r.p.file
             /\ cycle_ops' = (IF kp_conf.doscan THEN <<"kp_spy_scan">> ELSE <<>>)
                             \o predict_ops(r.ret, in_boot_window)
       IN /\ kp_state' = [scanned EXCEPT !.time = @ + kp_conf.cycle \div 2]
          /\ IF kp_conf.dopredict
             THEN checked(kp_pause_is_active([st |-> pause_state, file |-> pausefile], clock))
             ELSE /\ cycle_ops' = IF kp_conf.doscan THEN <<"kp_spy_scan">> ELSE <<>>
                  /\ UNCHANGED <<pause_state, pausefile>>
  /\ timers' = tick_arms(timers)
  /\ fresh' = FALSE
  /\ UNCHANGED <<boots, kp_conf, pc, stopping, disk, pending, hung, clock, blacklist, aux>>

\* kp_state_tick, over what the scan finds (scans) and whether the session
\* boot window is open (windows)
kp_state_tick(scans, windows) ==
  /\ pc = "run" /\ ~stopping /\ timers.kp_state_tick > 0
  /\ kp_state.time + kp_conf.cycle <= MaxTime
  /\ \E now \in scans, probe \in Probes, in_boot_window \in windows :
       LET scanned == IF kp_conf.doscan
                      THEN [kp_spy_scan(kp_state, now, probe)
                              EXCEPT !.dirty = TRUE, !.model_dirty = TRUE]
                      ELSE kp_state
           checked(r) ==
             /\ pause_state' = r.p.st
             /\ pausefile' = r.p.file
             /\ cycle_ops' = (IF kp_conf.doscan THEN <<"kp_spy_scan">> ELSE <<>>)
                             \o predict_ops(r.ret, in_boot_window)
       IN /\ kp_state' = [scanned EXCEPT !.time = @ + kp_conf.cycle \div 2]
          /\ IF kp_conf.dopredict
             THEN checked(kp_pause_is_active([st |-> pause_state, file |-> pausefile], clock))
             ELSE /\ cycle_ops' = IF kp_conf.doscan THEN <<"kp_spy_scan">> ELSE <<>>
                  /\ UNCHANGED <<pause_state, pausefile>>
  /\ timers' = tick_arms(timers)
  /\ fresh' = FALSE
  /\ UNCHANGED <<boots, kp_conf, pc, stopping, disk, pending, hung, clock, blacklist, aux>>

Tick == kp_state_tick(Scans, {FALSE})

\* a kp_state_tick2 that advances the time by cycle / 2, as kp_state_tick does
Tick2_rounds_down ==
  /\ pc = "run" /\ ~stopping /\ timers.kp_state_tick2 > 0
  /\ LET s1 == IF kp_state.model_dirty
               THEN [kp_spy_update_model(kp_state, kp_conf.cycle) EXCEPT !.model_dirty = FALSE]
               ELSE kp_state
     IN kp_state' = [s1 EXCEPT !.time = @ + kp_conf.cycle \div 2]
  /\ cycle_ops' = IF kp_state.model_dirty
                  THEN cycle_ops \o <<"kp_spy_update_model">> ELSE cycle_ops
  /\ timers' = tick2_arms(timers)
  /\ fresh' = FALSE
  /\ UNCHANGED <<boots, kp_conf, pc, stopping, disk>>
  /\ UNCHANGED <<pending, hung, pause_state, pausefile, clock, blacklist, aux>>

\* kp_state_tick2
Tick2 ==
  /\ pc = "run" /\ ~stopping /\ timers.kp_state_tick2 > 0
  /\ LET s1 == IF kp_state.model_dirty
               THEN [kp_spy_update_model(kp_state, kp_conf.cycle) EXCEPT !.model_dirty = FALSE]
               ELSE kp_state
     IN kp_state' = [s1 EXCEPT !.time = @ + (kp_conf.cycle + 1) \div 2]
  /\ cycle_ops' = IF kp_state.model_dirty
                  THEN cycle_ops \o <<"kp_spy_update_model">> ELSE cycle_ops
  /\ timers' = tick2_arms(timers)
  /\ fresh' = FALSE
  /\ UNCHANGED <<boots, kp_conf, pc, stopping, disk>>
  /\ UNCHANGED <<pending, hung, pause_state, pausefile, clock, blacklist, aux>>

\* the SIGHUP case of sig_handler_sync: the configuration is read again,
\* the blacklist is reloaded and the manual apps are registered
sighup_case(confs, junks) ==
  /\ \E conf \in confs, apps \in ManualApps, junk \in junks, opens \in BOOLEAN :
       /\ kp_conf' = conf
       /\ blacklist' = kp_blacklist_reload(blacklist, blacklist_file, opens)
       /\ kp_state' = kp_state_register_manual_apps(kp_state, apps, junk)
  /\ fresh' = FALSE
  /\ UNCHANGED <<boots, pc, timers, stopping, disk>>
  /\ UNCHANGED <<hung, pause_state, pausefile, clock, aux, cycle_ops>>

\* a SIGHUP that arrives while the main loop is idle and is dispatched next
Sighup ==
  /\ pc = "run" /\ ~stopping
  /\ kp_state.time <= MaxSighupTime
  /\ sighup_case(Confs, JunkInts)
  /\ UNCHANGED pending

\* a call of kp_state_unregister_exe on a registered exe
UnregisterExe ==
  /\ pc = "run" /\ ~stopping
  /\ \E p \in kp_state.exes : kp_state' = kp_state_unregister_exe(kp_state, p)
  /\ fresh' = FALSE
  /\ UNCHANGED <<boots, kp_conf, pc, timers, stopping, disk>>
  /\ UNCHANGED <<ctl, blacklist, aux>>

\* the tail of kp_state_save: dirty is cleared, bad_exes is emptied
save_done(s) == [s EXCEPT !.dirty = FALSE, !.bad_exes = EmptyFun]

\* the callers of kp_state_save: kp_state_autosave off its timer,
\* sig_handler_sync on SIGUSR2, main once the loop has quit
Calls(caller) ==
  CASE caller = "kp_state_autosave" -> ~stopping /\ timers.kp_state_autosave > 0
    [] caller = "sig_handler_sync" -> ~stopping /\ pending # <<>> /\ Head(pending) = "SIGUSR2"
    [] caller = "main" -> stopping

\* the source of the caller leaves the main loop as its callback starts
pending_in(caller) == IF caller = "sig_handler_sync" THEN Tail(pending) ELSE pending

timers_in(caller) ==
  IF caller = "kp_state_autosave" THEN [timers EXCEPT !.kp_state_autosave = @ - 1] ELSE timers

\* kp_state_save returns: kp_state_autosave arms its timer again
timers_out(t) ==
  IF ~stopping /\ t.kp_state_autosave = 0 THEN [t EXCEPT !.kp_state_autosave = 1] ELSE t

AfterSave == IF stopping THEN "free" ELSE "run"

\* kp_state_save with nothing to write
kp_state_save_clean(caller) ==
  /\ pc = "run" /\ ~kp_state.dirty
  /\ Calls(caller)
  /\ kp_state' = [kp_state EXCEPT !.bad_exes = EmptyFun]
  /\ pc' = AfterSave
  /\ pending' = pending_in(caller)
  /\ UNCHANGED <<boots, kp_conf, timers, stopping, disk, fresh>>
  /\ UNCHANGED <<hung, pause_state, pausefile, clock, blacklist, aux, cycle_ops>>

\* kp_state_save, open(tmpfile, O_RDWR | O_CREAT | O_TRUNC | O_NOFOLLOW)
kp_state_save_open(caller) ==
  /\ pc = "run" /\ kp_state.dirty
  /\ Calls(caller)
  /\ pending' = pending_in(caller)
  /\ \E ok \in BOOLEAN :
       IF ok
       THEN /\ disk' = [disk EXCEPT !.tmp = File(<<>>)]
            /\ pc' = "sv_open"
            /\ timers' = timers_in(caller)
            /\ UNCHANGED kp_state
       ELSE /\ kp_state' = save_done(kp_state)
            /\ pc' = AfterSave
            /\ UNCHANGED <<disk, timers>>
  /\ fresh' = FALSE
  /\ UNCHANGED <<boots, kp_conf, stopping>>
  /\ UNCHANGED <<hung, pause_state, pausefile, clock, blacklist, aux, cycle_ops>>

\* the saves of a daemon that gets no SIGUSR2
Savers == {"kp_state_autosave", "main"}

SaveSkip == \E caller \in Savers : kp_state_save_clean(caller)

SaveOpen == \E caller \in Savers : kp_state_save_open(caller)

Prefix(sq, k) == SubSeq(sq, 1, k)

\* the place where a write error is taken to strike: after the header
Cuts(body) == {1}

\* a save that writes over the state file itself
save_write_in_place(d, lines) == [d EXCEPT !.state = File(lines), !.tmp = File(lines)]

\* kp_state_save: what write_state(f, fd) writes goes to the channel opened
\* on tmpfile
save_write(d, lines) == [d EXCEPT !.tmp = File(lines)]

\* write_state and the flush after it: all of it reaches the file, or the
\* lines up to an error
SaveWrite ==
  /\ pc = "sv_open"
  /\ \/ /\ disk' = save_write(disk, write_state(kp_state))
        /\ pc' = "sv_written"
     \/ \E k \in Cuts(StateBody(kp_state)) :
          /\ disk' = save_write(disk, Prefix(StateBody(kp_state), k))
          /\ pc' = "sv_failed"
  /\ UNCHANGED <<boots, kp_state, kp_conf, timers, stopping, fresh>>
  /\ UNCHANGED <<ctl, blacklist, aux>>

\* kp_state_save, errmsg set: close and unlink(tmpfile)
SaveAbort ==
  /\ pc = "sv_failed"
  /\ disk' = [disk EXCEPT !.tmp = NoFile]
  /\ kp_state' = save_done(kp_state)
  /\ pc' = AfterSave
  /\ timers' = timers_out(timers)
  /\ UNCHANGED <<boots, kp_conf, stopping, fresh>>
  /\ UNCHANGED <<ctl, blacklist, aux>>

\* kp_state_save, fsync(fd): a failure is logged and the save goes on
SaveSync ==
  /\ pc = "sv_written"
  /\ \E ok \in BOOLEAN :
       pc' = IF ok THEN "sv_synced" ELSE "sv_nosync"
  /\ UNCHANGED <<boots, kp_state, kp_conf, timers, stopping, disk, fresh>>
  /\ UNCHANGED <<ctl, blacklist, aux>>

\* kp_state_save, rename(tmpfile, statefile), unlink(tmpfile) if it fails
SaveRename ==
  /\ pc \in {"sv_synced", "sv_nosync"}
  /\ \E ok \in BOOLEAN :
       IF ok
       THEN /\ disk' = [disk EXCEPT !.state = disk.tmp, !.tmp = NoFile]
            /\ kp_state' = save_done(kp_state)
            /\ fresh' = TRUE
       ELSE /\ disk' = [disk EXCEPT !.tmp = NoFile]
            /\ kp_state' = save_done(kp_state)
            /\ fresh' = FALSE
  /\ pc' = AfterSave
  /\ timers' = timers_out(timers)
  /\ UNCHANGED <<boots, kp_conf, stopping>>
  /\ UNCHANGED <<ctl, blacklist, aux>>

\* the default case of sig_handler_sync: g_main_loop_quit; g_main_loop_run
\* returns and no source is dispatched any more
quit_case ==
  /\ stopping' = TRUE
  /\ UNCHANGED <<boots, kp_state, kp_conf, pc, timers, disk, fresh>>
  /\ UNCHANGED <<hung, pause_state, pausefile, clock, blacklist, aux, cycle_ops>>

\* a SIGTERM or SIGINT that arrives while the main loop is idle and is
\* dispatched next; the last kp_state_save follows
Stop ==
  /\ pc = "run" /\ ~stopping
  /\ quit_case
  /\ UNCHANGED pending

\* kp_state_free, g_hash_table_destroy(kp_state->exes): one kp_exe_free
FreeExe ==
  /\ pc = "free"
  /\ kp_state.exes # {}
  /\ LET p == Head(SetToSeq(kp_state.exes))
     IN kp_state' = [kp_exe_free(kp_state, p) EXCEPT !.exes = @ \ {p}]
  /\ fresh' = FALSE
  /\ UNCHANGED <<boots, kp_conf, pc, timers, stopping, disk>>
  /\ UNCHANGED <<ctl, blacklist, aux>>

\* kp_state_free, after the exes: the two g_assert, then the process ends
FreeDone ==
  /\ pc = "free" /\ kp_state.exes = {}
  /\ kp_state.maps = {} /\ kp_state.maps_arr = <<>>
  /\ ProcessEnds

\* the process is killed or the machine loses power: memory is gone, the
\* files stay as they are
Crash ==
  /\ pc \notin {"down", "free"}
  /\ ProcessEnds

Next ==
  \/ Start
  \/ Tick
  \/ Tick2
  \/ Sighup
  \/ UnregisterExe
  \/ SaveSkip
  \/ SaveOpen
  \/ SaveWrite
  \/ SaveAbort
  \/ SaveSync
  \/ SaveRename
  \/ Stop
  \/ FreeExe
  \/ FreeDone
  \/ Crash

Spec == Init /\ [][Next]_vars

(***************************************************************************)
(* The same daemon with a state file that is damaged while the daemon is   *)
(* down: a field lost from a MARKOV line, the header line lost, a digit    *)
(* of the header changed.                                                  *)
(***************************************************************************)
HasFooter(lines) == lines # <<>> /\ lines[Len(lines)].tag = "CRC32"

\* the checksum of the footer is the checksum of the lines before it
Intact(statefile) ==
  /\ statefile.exists
  /\ HasFooter(statefile.lines)
  /\ statefile.lines[Len(statefile.lines)].f
       = <<Tok("hex", kp_crc32(1, Prefix(statefile.lines, Len(statefile.lines) - 1)), 1)>>

DropField(line, j) ==
  [line EXCEPT !.f = SubSeq(line.f, 1, j - 1) \o SubSeq(line.f, j + 1, Len(line.f))]

\* the first MARKOV line without its first dwell-time (the fourth field)
DropDwellTime(lines) ==
  LET is == {i \in 1 .. Len(lines) : lines[i].tag = "MARKOV"}
      i == CHOOSE x \in is : \A y \in is : x <= y
  IN IF is = {} THEN lines ELSE [lines EXCEPT ![i] = DropField(lines[i], 4)]

DropHeader(lines) == Tail(lines)

\* the time field of the header, one more than was written
FlipHeaderTime(lines) == [lines EXCEPT ![1].f[2].n = @ + 1]

\* the time field of the first MARKOV line, one more than was written
RaiseMarkovTime(lines) ==
  LET is == {i \in 1 .. Len(lines) : lines[i].tag = "MARKOV"}
      i == CHOOSE x \in is : \A y \in is : x <= y
  IN IF is = {} THEN lines ELSE [lines EXCEPT ![i].f[3].n = @ + 1]

\* the file cut off behind its last MAP line
CutAfterMaps(lines) ==
  LET is == {i \in 1 .. Len(lines) : lines[i].tag = "MAP"}
      i == CHOOSE x \in is : \A y \in is : x >= y
  IN IF is = {} THEN lines ELSE SubSeq(lines, 1, i)

Damages(lines) ==
  {DropDwellTime(lines), DropHeader(lines), FlipHeaderTime(lines), RaiseMarkovTime(lines),
   CutAfterMaps(lines)}
  \ {lines}

Damage ==
  /\ pc = "down"
  /\ Intact(disk.state)
  /\ \E lines \in Damages(disk.state.lines) : disk' = [disk EXCEPT !.state = File(lines)]
  /\ UNCHANGED <<boots, kp_state, kp_conf, pc, timers, stopping, fresh>>
  /\ UNCHANGED <<ctl, blacklist, aux>>

NextDamage ==
  \/ Start
  \/ Tick
  \/ Tick2
  \/ SaveSkip
  \/ SaveOpen
  \/ SaveWrite
  \/ SaveAbort
  \/ SaveSync
  \/ SaveRename
  \/ Stop
  \/ FreeExe
  \/ FreeDone
  \/ Crash
  \/ Damage

SpecDamage == Init /\ [][NextDamage]_vars

(***************************************************************************)
(* The daemon with its control surface: signals arrive at any moment and   *)
(* are handled on the main loop, preheat-ctl writes and removes the pause  *)
(* file, and the wall clock moves.  The scans find little here.            *)
(***************************************************************************)
\* how many sig_handler_sync sources wait on the main loop at once
MaxPending == 1

\* the wall clock, in seconds, stops here
MaxClock == 2

\* the durations preheat-ctl pause is given: until reboot, and one second
PauseSeconds == {0, 1}

CtlScans == {{}, {1}}

\* how many times this daemon is started
MaxCtlBoots == 1

StartCtl ==
  /\ boots < MaxCtlBoots
  /\ StartFrom(LoadOutcomesOver(disk.state, {<<>>}, {EmptyFun}, {0}))

TickCtl == kp_state_tick(CtlScans, BOOLEAN)

\* sig_handler: g_timeout_add(0, sig_handler_sync, sig)
sig_handler(q, sig) == Append(q, sig)

\* a signal is delivered and sig_handler returns
sig_handler_returns(sigs) ==
  /\ pc \notin {"down", "hung"}
  /\ Len(pending) < MaxPending
  /\ \E sig \in sigs : pending' = sig_handler(pending, sig)
  /\ UNCHANGED <<kp_state, kp_conf, pc, timers, stopping, disk, fresh, boots>>
  /\ UNCHANGED <<hung, pause_state, pausefile, clock, blacklist, aux, cycle_ops>>

Signal == sig_handler_returns(Signals)

\* a signal is delivered while the main thread is inside malloc or holds the
\* lock of the main context: g_timeout_add is not async-signal-safe, and
\* sig_handler waits for a lock its own thread holds
sig_handler_deadlocks(sigs) ==
  /\ pc \notin {"down", "hung"}
  /\ \E sig \in sigs : hung' = sig
  /\ pc' = "hung"
  /\ UNCHANGED <<kp_state, kp_conf, timers, stopping, disk, fresh, boots>>
  /\ UNCHANGED <<pending, pause_state, pausefile, clock, blacklist, aux, cycle_ops>>

\* a sig_handler_sync that runs where the signal finds the main thread,
\* inside a callback or not
Dispatches_in_signal_context(sig) ==
  /\ pc # "down" /\ ~stopping
  /\ pending # <<>> /\ Head(pending) = sig

\* the main loop, idle, dispatches the oldest sig_handler_sync source
Dispatches(sig) ==
  /\ pc = "run" /\ ~stopping
  /\ pending # <<>> /\ Head(pending) = sig

DispatchSighup ==
  /\ Dispatches("SIGHUP")
  /\ sighup_case(Confs, {0})
  /\ pending' = Tail(pending)

\* the SIGUSR1 case: the dumps write to the log and to /run/preheat.stats
DispatchSigusr1 ==
  /\ Dispatches("SIGUSR1")
  /\ pending' = Tail(pending)
  /\ UNCHANGED <<kp_state, kp_conf, pc, timers, stopping, disk, fresh, boots>>
  /\ UNCHANGED <<hung, pause_state, pausefile, clock, blacklist, aux, cycle_ops>>

DispatchSigterm ==
  /\ Dispatches("SIGTERM")
  /\ quit_case
  /\ pending' = Tail(pending)

CtlSavers == Savers \cup {"sig_handler_sync"}

SaveSkipCtl == \E caller \in CtlSavers : kp_state_save_clean(caller)

SaveOpenCtl == \E caller \in CtlSavers : kp_state_save_open(caller)

\* preheat-ctl pause
CliPause ==
  /\ \E seconds \in PauseSeconds : pausefile' = cmd_pause(seconds, clock)
  /\ UNCHANGED <<kp_state, kp_conf, pc, timers, stopping, disk, fresh, boots>>
  /\ UNCHANGED <<pending, hung, pause_state, clock, blacklist, aux, cycle_ops>>

\* preheat-ctl resume
CliResume ==
  /\ pausefile.exists
  /\ pausefile' = cmd_resume
  /\ UNCHANGED <<kp_state, kp_conf, pc, timers, stopping, disk, fresh, boots>>
  /\ UNCHANGED <<pending, hung, pause_state, clock, blacklist, aux, cycle_ops>>

\* a second passes
Pass ==
  /\ clock < MaxClock
  /\ clock' = clock + 1
  /\ UNCHANGED <<kp_state, kp_conf, pc, timers, stopping, disk, fresh, boots>>
  /\ UNCHANGED <<blacklist, aux>>
  /\ UNCHANGED <<pending, hung, pause_state, pausefile, cycle_ops>>

NextCtl ==
  \/ StartCtl
  \/ TickCtl
  \/ Tick2
  \/ Signal
  \/ DispatchSighup
  \/ DispatchSigusr1
  \/ DispatchSigterm
  \/ SaveSkipCtl
  \/ SaveOpenCtl
  \/ SaveWrite
  \/ SaveAbort
  \/ SaveSync
  \/ SaveRename
  \/ FreeExe
  \/ FreeDone
  \/ CliPause
  \/ CliResume
  \/ Pass

SpecCtl == Init /\ [][NextCtl]_vars

(***************************************************************************)
(* Shutdown: one start of the daemon, its ticks and saves, and the stop    *)
(* signals.  Delivery of a signal has the two outcomes the call of         *)
(* g_timeout_add in signal context can have.  The main loop dispatches     *)
(* what is ready, kp_state_save and kp_state_free run to their end.        *)
(***************************************************************************)
StopSignals == {"SIGTERM"}

StopSignal == sig_handler_returns(StopSignals)

StopSignalDeadlock == sig_handler_deadlocks(StopSignals)

NextStop ==
  \/ StartCtl
  \/ TickCtl
  \/ Tick2
  \/ StopSignal
  \/ StopSignalDeadlock
  \/ DispatchSigterm
  \/ SaveSkip
  \/ SaveOpen
  \/ SaveWrite
  \/ SaveAbort
  \/ SaveSync
  \/ SaveRename
  \/ FreeExe
  \/ FreeDone

SpecStop ==
  /\ Init /\ [][NextStop]_vars
  /\ WF_vars(DispatchSigterm)
  /\ WF_vars(SaveSkip) /\ WF_vars(SaveOpen)
  /\ WF_vars(SaveWrite \/ SaveAbort)
  /\ WF_vars(SaveSync) /\ WF_vars(SaveRename)
  /\ WF_vars(FreeExe) /\ WF_vars(FreeDone)

(***************************************************************************)
(* read_exe on its own: one EXE line, of every width a state file of this  *)
(* or an older version can hold, read into an empty state.                 *)
(***************************************************************************)
\* the nine columns write_exe prints
ExeColumns ==
  {<<FmtD(i), FmtD(update_time), FmtD(time), FmtD(-1), FmtD(pool),
     Fmt6f(weighted_launches), FmtD(raw_launches), FmtD(total_duration),
     g_filename_to_uri(path)>> :
     i \in {1, 2}, update_time \in {0, 3}, time \in {0, 5},
     pool \in {POOL_PRIORITY, POOL_OBSERVATION},
     weighted_launches \in {Zero, Rat(3, 2), Rat(1, 3)},
     raw_launches \in {0, 2}, total_duration \in {0, 9}, path \in {1, 2}}

\* the line with the pool and without the counters, the line of the
\* original format, and lines cut short
ExeLegacy(c) ==
  {SubSeq(c, 1, 5) \o <<c[9]>>, SubSeq(c, 1, 4) \o <<c[9]>>,
   SubSeq(c, 1, 4), SubSeq(c, 1, 3) \o <<c[9]>>, <<c[1]>>}

ExeLines == ExeColumns \cup UNION {ExeLegacy(c) : c \in ExeColumns}

InitExe ==
  /\ kp_state = EmptyState
  /\ kp_conf \in Confs
  /\ pc = "read_exe"
  /\ timers = NoTimers
  /\ stopping = FALSE
  /\ disk \in {[state |-> File(<<Line("EXE", f)>>), tmp |-> NoFile, broken |-> NoFile] :
                f \in ExeLines}
  /\ fresh = FALSE
  /\ boots = 0
  /\ pending = <<>>
  /\ hung = ""
  /\ pause_state = PauseZero
  /\ pausefile = NoPauseFile
  /\ clock = 0
  /\ cycle_ops = <<>>
  /\ blacklist = BlacklistZero
  /\ blacklist_file = NoBlacklistFile
  /\ call = NoCall

\* read_exe on the line, with the context read_state starts from
ReadExe ==
  /\ pc = "read_exe"
  /\ \E junk \in JunkInts :
       LET rc0 == [s |-> kp_state, maps |-> EmptyFun, exes |-> EmptyFun,
                   errmsg |-> "", lineno |-> 0, stop |-> FALSE]
           returned(rc1) ==
             /\ kp_state' = rc1.s
             /\ pc' = CASE rc1.errmsg = "" -> "exe_read"
                        [] rc1.errmsg = READ_SYNTAX_ERROR -> "exe_syntax_error"
                        [] OTHER -> "exe_error"
       IN returned(read_exe(rc0, disk.state.lines[1].f, junk))
  /\ UNCHANGED <<kp_conf, timers, stopping, disk, fresh, boots>>
  /\ UNCHANGED <<ctl, blacklist, aux>>

NextExe == ReadExe

SpecExe == InitExe /\ [][NextExe]_vars

(***************************************************************************)
(* read_map and read_exe on files that name an id or an object twice: a    *)
(* header and two lines, read by the loop of read_state and, from the same *)
(* file, by the whole kp_state_load.                                       *)
(***************************************************************************)
\* MAP lines as write_map prints them, over two ids and four triples
DupMapLines ==
  {Line("MAP", <<FmtD(i), FmtD(0), FmtD(0), FmtD(length), FmtD(-1), g_filename_to_uri(path)>>) :
     i \in {0, 1}, length \in {1, 2}, path \in {1, 2}}

\* EXE lines as write_exe prints them, over two ids, two paths and two times
DupExeLines ==
  {Line("EXE", <<FmtD(i), FmtD(update_time), FmtD(0), FmtD(-1), FmtD(POOL_OBSERVATION),
                 Fmt6f(Zero), FmtD(0), FmtD(0), g_filename_to_uri(path)>>) :
     i \in {0, 1}, update_time \in {0, 3}, path \in {1, 2}}

\* two lines of one kind, and a MAP line followed by an EXE line
DupFiles ==
  {<<write_header(EmptyState), a, b>> :
     a \in DupMapLines, b \in DupMapLines \cup DupExeLines}
  \cup {<<write_header(EmptyState), a, b>> : a \in DupExeLines, b \in DupExeLines}

InitDup ==
  /\ kp_state = EmptyState
  /\ kp_conf \in Confs
  /\ pc = "down"
  /\ timers = NoTimers
  /\ stopping = FALSE
  /\ disk \in {[state |-> File(lines), tmp |-> NoFile, broken |-> NoFile] : lines \in DupFiles}
  /\ fresh = FALSE
  /\ boots = 0
  /\ pending = <<>>
  /\ hung = ""
  /\ pause_state = PauseZero
  /\ pausefile = NoPauseFile
  /\ clock = 0
  /\ cycle_ops = <<>>
  /\ blacklist = BlacklistZero
  /\ blacklist_file = NoBlacklistFile
  /\ call = NoCall

\* the loop of read_state over the lines, up to the first error
ReadDupLines ==
  /\ pc = "down"
  /\ LET rc0 == [s |-> kp_state, maps |-> EmptyFun, exes |-> EmptyFun,
                  errmsg |-> "", lineno |-> 0, stop |-> FALSE]
          returned(rc1) ==
            /\ kp_state' = rc1.s
            /\ pc' = CASE rc1.errmsg = "" -> "lines_read"
                       [] rc1.errmsg = READ_DUPLICATE_INDEX_ERROR -> "lines_duplicate_index"
                       [] rc1.errmsg = READ_DUPLICATE_OBJECT_ERROR -> "lines_duplicate_object"
                       [] OTHER -> "lines_error"
      IN returned(read_lines(rc0, disk.state.lines, 0))
  /\ UNCHANGED <<kp_conf, timers, stopping, disk, fresh, boots>>
  /\ UNCHANGED <<ctl, blacklist, aux>>

NextDup ==
  \/ ReadDupLines
  \/ StartCtl

SpecDup == InitDup /\ [][NextDup]_vars

(***************************************************************************)
(* The daemon and its blacklist file: the file is written, within one      *)
(* second or seconds apart, and removed, and a SIGHUP makes the daemon     *)
(* reload it.                                                              *)
(***************************************************************************)
\* how many lines a blacklist file has at most
MaxBlacklistLines == 2

Repeat(c, n) == [i \in 1 .. n |-> c]

\* an entry, an entry with a dot, lines with blanks around the entry, a line
\* with a character no entry may have, a comment, an empty line, and lines
\* of the length fgets cuts at
BlacklistLineSet ==
  {<<"a">>, <<"b", ".", "c">>, <<" ", "a">>, <<"a", " ">>, <<"a", "/", "b">>,
   <<"#", "a">>, <<>>,
   Repeat("a", BLACKLIST_LINE_MAX - 1), Repeat("a", BLACKLIST_LINE_MAX)}

BlacklistTexts ==
  UNION {[1 .. n -> BlacklistLineSet] : n \in 0 .. MaxBlacklistLines}

InitBlacklist ==
  /\ kp_state = EmptyState
  /\ kp_conf \in Confs
  /\ pc = "down"
  /\ timers = NoTimers
  /\ stopping = FALSE
  /\ disk = [state |-> NoFile, tmp |-> NoFile, broken |-> NoFile]
  /\ fresh = FALSE
  /\ boots = 0
  /\ pending = <<>>
  /\ hung = ""
  /\ pause_state = PauseZero
  /\ pausefile = NoPauseFile
  /\ clock = 1
  /\ cycle_ops = <<>>
  /\ blacklist = BlacklistZero
  /\ blacklist_file = NoBlacklistFile
  /\ call = NoCall

\* an editor saves the blacklist file; its mtime is the second it is saved in
WriteBlacklist ==
  /\ \E lines \in BlacklistTexts :
       blacklist_file' = [exists |-> TRUE, mtime |-> clock, lines |-> lines]
  /\ UNCHANGED <<kp_state, kp_conf, pc, timers, stopping, disk, fresh, boots>>
  /\ UNCHANGED <<ctl, blacklist, call>>

RemoveBlacklist ==
  /\ blacklist_file.exists
  /\ blacklist_file' = NoBlacklistFile
  /\ UNCHANGED <<kp_state, kp_conf, pc, timers, stopping, disk, fresh, boots>>
  /\ UNCHANGED <<ctl, blacklist, call>>

\* a SIGHUP dispatched on the idle main loop
SighupBlacklist ==
  /\ pc = "run" /\ ~stopping
  /\ sighup_case(Confs, {0})
  /\ UNCHANGED pending

NextBlacklist ==
  \/ StartCtl
  \/ SighupBlacklist
  \/ WriteBlacklist
  \/ RemoveBlacklist
  \/ Pass

SpecBlacklist == InitBlacklist /\ [][NextBlacklist]_vars

(***************************************************************************)
(* kp_path_in_directories on its own: one call, over short paths and       *)
(* prefixes, the ones its comments name among them.                        *)
(***************************************************************************)
\* how long the enumerated paths and prefixes are at most
MaxPathLen == 3

PathChars == {"/", "a"}

ShortTexts == UNION {[1 .. n -> PathChars] : n \in 0 .. MaxPathLen}

\* "/opt", "/opt/", "/opt/app", "/optical", "/opt/myapp/bin/prog"
Opt == <<"/", "o", "p", "t">>

OptSlash == Opt \o <<"/">>

OptApp == OptSlash \o <<"a", "p", "p">>

Optical == Opt \o <<"i", "c", "a", "l">>

OptMyappBinProg ==
  OptSlash \o <<"m", "y", "a", "p", "p", "/", "b", "i", "n", "/", "p", "r", "o", "g">>

CallPaths == ShortTexts \cup {Opt, OptSlash, OptApp, Optical, OptMyappBinProg}

CallPrefixes == ShortTexts \cup {Opt, OptSlash, NullString}

InitPath ==
  /\ kp_state = EmptyState
  /\ kp_conf \in Confs
  /\ pc = "call"
  /\ timers = NoTimers
  /\ stopping = FALSE
  /\ disk = [state |-> NoFile, tmp |-> NoFile, broken |-> NoFile]
  /\ fresh = FALSE
  /\ boots = 0
  /\ pending = <<>>
  /\ hung = ""
  /\ pause_state = PauseZero
  /\ pausefile = NoPauseFile
  /\ clock = 0
  /\ cycle_ops = <<>>
  /\ blacklist = BlacklistZero
  /\ blacklist_file = NoBlacklistFile
  /\ call \in {[fn |-> "kp_path_in_directories",
                 args |-> [path |-> path, prefixes |-> <<first, second>>, count |-> count],
                 returned |-> FALSE, result |-> FALSE] :
                path \in CallPaths, first \in CallPrefixes, second \in CallPrefixes,
                count \in 0 .. 2}

PathInDirectories ==
  /\ pc = "call"
  /\ call.fn = "kp_path_in_directories"
  /\ call' = [call EXCEPT
                !.returned = TRUE,
                !.result = kp_path_in_directories(call.args.path, call.args.prefixes,
                                                  call.args.count)]
  /\ pc' = "returned"
  /\ UNCHANGED <<kp_state, kp_conf, timers, stopping, disk, fresh, boots>>
  /\ UNCHANGED <<ctl, blacklist, blacklist_file>>

NextPath == PathInDirectories

SpecPath == InitPath /\ [][NextPath]_vars

(***************************************************************************)
(* kp_markov_state_changed on its own: two exes and their markov, in every *)
(* combination of who runs and what the markov has recorded, and the       *)
(* function called twice at one state.time.                                *)
(***************************************************************************)
\* the latest state.time of a call
MaxMarkovTime == 2

WeightSamples == {ZeroWeight, <<<<1, 0, 2, 1>>, <<0, 3, 1, 0>>, <<2, 0, 1, 0>>, <<1, 1, 0, 4>>>>}

TtlSamples == {ZeroTtl, <<Rat(1, 2), One, Zero, Rat(3, 2)>>}

\* exes 1 and 2 registered at time t, running or not, and their markov with
\* what it has recorded so far
MarkovCase(t, a_runs, b_runs, state, change_timestamp, weight, time_to_leave) ==
  LET s0 == [EmptyState EXCEPT !.time = t, !.last_running_timestamp = t]
      s1 == kp_state_register_exe(kp_exe_new(s0, 1, a_runs, <<>>, 0), 1, FALSE)
      s2 == kp_state_register_exe(kp_exe_new(s1, 2, b_runs, <<>>, 0), 2, FALSE)
      s3 == kp_markov_new(s2, 1, 2, TRUE, 0)
  IN [s3 EXCEPT !.markov = [id \in DOMAIN @ |->
                             [@[id] EXCEPT !.state = state,
                                           !.change_timestamp = change_timestamp,
                                           !.weight = weight,
                                           !.time_to_leave = time_to_leave]]]

\* the cases at state.time = t; no change lies in the future
MarkovCasesAt(t) ==
  {MarkovCase(t, a_runs, b_runs, state, change_timestamp, weight, ttl) :
     a_runs \in BOOLEAN, b_runs \in BOOLEAN, state \in 0 .. 3,
     change_timestamp \in 0 .. t, weight \in WeightSamples, ttl \in TtlSamples}

InitMarkov ==
  /\ kp_state \in UNION {MarkovCasesAt(t) : t \in 1 .. MaxMarkovTime}
  /\ kp_conf \in Confs
  /\ pc = "call"
  /\ timers = NoTimers
  /\ stopping = FALSE
  /\ disk = [state |-> NoFile, tmp |-> NoFile, broken |-> NoFile]
  /\ fresh = FALSE
  /\ boots = 0
  /\ pending = <<>>
  /\ hung = ""
  /\ pause_state = PauseZero
  /\ pausefile = NoPauseFile
  /\ clock = 0
  /\ cycle_ops = <<>>
  /\ blacklist = BlacklistZero
  /\ blacklist_file = NoBlacklistFile
  /\ call = NoCall

\* kp_markov_state_changed(markov), a first and a second time
MarkovStateChanged ==
  /\ pc \in {"call", "called"}
  /\ \E id \in DOMAIN kp_state.markov : kp_state' = kp_markov_state_changed(kp_state, id)
  /\ pc' = IF pc = "call" THEN "called" ELSE "called_again"
  /\ UNCHANGED <<kp_conf, timers, stopping, disk, fresh, boots>>
  /\ UNCHANGED <<ctl, blacklist, aux>>

NextMarkov == MarkovStateChanged

SpecMarkov == InitMarkov /\ [][NextMarkov]_vars

(***************************************************************************)
(* The predictor's map selection (spec 4.4, steps 3 to 5) on its own: one  *)
(* predict pass over the candidate maps, their lengths and the memory      *)
(* statistics counted in MiB.                                              *)
(***************************************************************************)
\* a signed percent setting applied to its own statistic: a negative value
\* is that fraction of total memory
signed_percent(value, own, total) ==
  IF value < 0 THEN ((0 - value) * total) \div 100 ELSE (value * own) \div 100

\* step 3: the budget from memstat and model.memtotal, memfree, memcached
memory_budget(memstat, model) ==
  signed_percent(model.memtotal, memstat.total, memstat.total)
  + signed_percent(model.memfree, memstat.free, memstat.total)
  + signed_percent(model.memcached, memstat.cached, memstat.total)

\* step 4, the sort: the orders of the candidates by descending utility
\* density; candidates of one density come in any order
DensityOrders(candidates) ==
  {order \in [1 .. Cardinality(candidates) -> candidates] :
     /\ \A i, j \in DOMAIN order : i # j => order[i] # order[j]
     /\ \A i, j \in DOMAIN order : i < j => order[i].density >= order[j].density}

\* a selection that takes the map that crosses the budget too
RECURSIVE select_past_budget(_, _)
select_past_budget(order, budget) ==
  IF order = <<>> \/ budget <= 0 THEN <<>>
  ELSE <<Head(order)>> \o select_past_budget(Tail(order), budget - Head(order).length)

\* step 4, the selection: maps are taken in order until one does not fit
\* into what is left of the budget
RECURSIVE select_greedily(_, _)
select_greedily(order, budget) ==
  IF order = <<>> \/ Head(order).length > budget THEN <<>>
  ELSE <<Head(order)>> \o select_greedily(Tail(order), budget - Head(order).length)

\* the candidates of the pass: 300 MiB in all, two of one density
CandidatePool ==
  {[map |-> K1, length |-> 60, density |-> 3],
   [map |-> K2, length |-> 50, density |-> 2],
   [map |-> K3, length |-> 40, density |-> 2],
   [map |-> [path |-> 2, offset |-> 2, length |-> 150], length |-> 150, density |-> 1]}

MemStats == {[total |-> 400, free |-> free, cached |-> 100] : free \in {200, 80}}

ModelConfs ==
  {[memtotal |-> memtotal, memfree |-> memfree, memcached |-> memcached] :
     memtotal \in {0, -10}, memfree \in {50, 0, -10}, memcached \in {0, 50}}

InitPredict ==
  /\ kp_state = EmptyState
  /\ kp_conf \in Confs
  /\ pc = "call"
  /\ timers = NoTimers
  /\ stopping = FALSE
  /\ disk = [state |-> NoFile, tmp |-> NoFile, broken |-> NoFile]
  /\ fresh = FALSE
  /\ boots = 0
  /\ pending = <<>>
  /\ hung = ""
  /\ pause_state = PauseZero
  /\ pausefile = NoPauseFile
  /\ clock = 0
  /\ cycle_ops = <<>>
  /\ blacklist = BlacklistZero
  /\ blacklist_file = NoBlacklistFile
  /\ call \in {[fn |-> "kp_prophet_predict",
                 args |-> [memstat |-> memstat, model |-> model, candidates |-> candidates],
                 returned |-> FALSE, result |-> <<>>] :
                memstat \in MemStats, model \in ModelConfs,
                candidates \in SUBSET CandidatePool}

\* steps 3 to 5 of one predict pass; result is what went to readahead
ProphetPredict ==
  /\ pc = "call"
  /\ call.fn = "kp_prophet_predict"
  /\ \E order \in DensityOrders(call.args.candidates) :
       call' = [call EXCEPT
                  !.returned = TRUE,
                  !.result = select_greedily(order,
                                             memory_budget(call.args.memstat, call.args.model))]
  /\ pc' = "returned"
  /\ UNCHANGED <<kp_state, kp_conf, timers, stopping, disk, fresh, boots>>
  /\ UNCHANGED <<ctl, blacklist, blacklist_file>>

NextPredict == ProphetPredict

SpecPredict == InitPredict /\ [][NextPredict]_vars

(***************************************************************************)
(* Properties.                                                             *)
(***************************************************************************)
RECURSIVE CountRefs(_, _)
CountRefs(exemaps, key) ==
  IF exemaps = <<>> THEN 0
  ELSE (IF Head(exemaps).map = key THEN 1 ELSE 0) + CountRefs(Tail(exemaps), key)

RECURSIVE SumRefs(_, _, _)
SumRefs(s, ps, key) ==
  IF ps = <<>> THEN 0
  ELSE CountRefs(s.exe[Head(ps)].exemaps, key) + SumRefs(s, Tail(ps), key)

\* the number of exemaps of live exes that refer to the map
RefsTo(s, key) == SumRefs(s, SetToSeq(DOMAIN s.exe), key)

AllKeys(s) ==
  DOMAIN s.mapobj \cup s.maps \cup SeqSet(s.maps_arr)
  \cup UNION {ExeMapKeys(s, p) : p \in DOMAIN s.exe}

\* C1 (P1): in every state the daemon rests in -- after exemaps were created,
\* exemaps and exes were freed, exes were unregistered, a load completed --
\* each map's refcount is the number of exemaps that refer to it.
C1_RefcountIsExemapCount ==
  \A key \in AllKeys(kp_state) :
    /\ key \in DOMAIN kp_state.mapobj
    /\ kp_state.mapobj[key].refcount = RefsTo(kp_state, key)

\* a map two exes share, in a daemon that loaded it from the state file
C1_Witness ==
  /\ boots = 2 /\ pc = "run"
  /\ \E key \in DOMAIN kp_state.mapobj : kp_state.mapobj[key].refcount = 2

\* C2: a map is in the registered set (the maps table and maps_arr) exactly
\* when its refcount is at least 1; a map whose count returned to 0 is
\* neither registered nor alive.
C2_RegisteredIffReferenced ==
  /\ \A key \in AllKeys(kp_state) :
       /\ key \in DOMAIN kp_state.mapobj
       /\ kp_state.mapobj[key].refcount >= 1
       /\ key \in kp_state.maps
       /\ Cardinality({i \in 1 .. Len(kp_state.maps_arr) : kp_state.maps_arr[i] = key}) = 1
  /\ \A key \in MapKeys \ AllKeys(kp_state) : RefsTo(kp_state, key) = 0

\* a map was registered and, its last exemap freed, is gone again while
\* another map is still registered
C2_Witness ==
  /\ pc = "free"
  /\ kp_state.maps # {}
  /\ kp_state.map_seq > Cardinality(kp_state.maps)

\* C3 (P2): every live markov is in the markov set of its a and of its b and
\* of no other exe, and no exe's set holds a markov that was destroyed.
C3_MarkovSymmetry ==
  /\ \A id \in DOMAIN kp_state.markov :
       LET m == kp_state.markov[id] IN
       /\ m.a \in DOMAIN kp_state.exe /\ m.b \in DOMAIN kp_state.exe
       /\ \A p \in DOMAIN kp_state.exe : (id \in kp_state.exe[p].markovs) <=> (p \in {m.a, m.b})
  /\ \A p \in DOMAIN kp_state.exe : kp_state.exe[p].markovs \subseteq DOMAIN kp_state.markov

\* three exes chained pairwise, one of them already freed at shutdown
C3_Witness ==
  /\ pc = "free"
  /\ Cardinality(DOMAIN kp_state.exe) = 2
  /\ Cardinality(DOMAIN kp_state.markov) = 1
  /\ kp_state.exe_seq >= 3

\* C4 (P3): exe.size is the sum of the lengths of the maps of its exemaps,
\* whether the exe came from kp_exe_new with a set or without one, grew by
\* kp_exe_map_new, or was loaded.
C4_SizeIsSumOfMaps ==
  \A p \in DOMAIN kp_state.exe :
    kp_state.exe[p].size = SumSizes(kp_state.exe[p].exemaps)

\* a loaded exe with two exemaps of different lengths
C4_Witness ==
  /\ boots = 2 /\ pc = "run"
  /\ \E p \in DOMAIN kp_state.exe :
       /\ Len(kp_state.exe[p].exemaps) = 2
       /\ kp_state.exe[p].size = 3

Saving == {"sv_open", "sv_failed", "sv_written", "sv_synced", "sv_nosync"}

\* the file reads back without an error, whatever is running
Loadable(statefile) ==
  \A r \in LoadOutcomes(statefile) : ~r.quarantined /\ ~r.died

\* C5: a save that is cut short before its rename leaves the state file as
\* it was, and that file loads: every step of a save short of the rename
\* leaves it unchanged, the file a killed save leaves behind reads back
\* without error, and a start never takes the leftover .tmp for the state.
C5_InterruptedSaveKeepsStatefile ==
  [][/\ (pc \in Saving /\ pc' \in Saving \cup {"down"}) =>
          (disk'.state = disk.state /\ (pc' = "down" => Loadable(disk'.state)))
     /\ (pc = "run" /\ pc' \in Saving) => disk'.state = disk.state
     /\ (pc = "down") => (disk'.state = disk.state /\ disk'.tmp = disk.tmp
                           /\ kp_state' \in {r.s : r \in LoadOutcomes(disk.state)} \cup {EmptyState})
    ]_vars

\* the daemon was killed after writing the header of a newer state, was
\* started again and runs on the older state, the partial .tmp still there
C5_Witness ==
  /\ boots = 2 /\ pc = "run"
  /\ disk.state.exists /\ disk.tmp.exists
  /\ Len(disk.tmp.lines) = 1
  /\ disk.tmp.lines[1] # disk.state.lines[1]
  /\ kp_state.exes # {}

\* C6: the rename of .tmp over the state file happens only when writing,
\* flushing and fsync all succeeded; after any of them failed the .tmp is
\* unlinked and the state file is as before.
C6_RenameOnlyAfterSuccess ==
  [][/\ (disk'.state # disk.state /\ pc \in Saving) => pc = "sv_synced"
     /\ (pc \in {"sv_failed", "sv_nosync"} /\ pc' # "down") =>
          (disk'.state = disk.state /\ ~disk'.tmp.exists)
    ]_vars

\* the states a start without any state file gives
FreshStarts == {r.s : r \in LoadOutcomes(NoFile)}

\* the step is a load of statefile that left memory empty and moved the file
\* to <statefile>.broken.<timestamp>
StartedEmptyAndQuarantined ==
  /\ kp_state' \in FreshStarts
  /\ ~disk'.state.exists
  /\ disk'.broken = disk.state

IsLoad == pc = "down" /\ boots' = boots + 1 /\ disk.state.exists

FieldsOf(tag) ==
  CASE tag = "PRELOAD" -> {2}
    [] tag = "MAP" -> {6}
    [] tag = "BADEXE" -> {3}
    [] tag = "EXE" -> {5, 6, 9}
    [] tag = "EXEMAP" -> {3}
    [] tag = "MARKOV" -> {23}
    [] tag = "CRC32" -> {1}
    [] OTHER -> {}

\* a line whose tag is unknown or whose fields are not the fields of its tag
MalformedLine(line) == Len(line.f) \notin FieldsOf(line.tag)

HasHeader(lines) == lines # <<>> /\ lines[1].tag = "PRELOAD"

\* C7 (P8): loading a file that has a malformed line (a MARKOV line with
\* three dwell-times, say) leaves memory empty -- nothing of the lines
\* before it stays registered -- and renames the file to .broken.<ts>.
C7_MalformedLineQuarantines ==
  [][(IsLoad /\ HasHeader(disk.state.lines)
        /\ \E i \in 1 .. Len(disk.state.lines) : MalformedLine(disk.state.lines[i]))
       => StartedEmptyAndQuarantined]_vars

\* C8: loading a file whose first line is no PRELOAD header leaves memory
\* empty and quarantines the file.
C8_MissingHeaderQuarantines ==
  [][(IsLoad /\ disk.state.lines # <<>> /\ ~HasHeader(disk.state.lines))
       => StartedEmptyAndQuarantined]_vars

\* C9: a file whose CRC32 footer does not match its contents is corrupt:
\* loading it leaves memory empty and quarantines the file.  Stated for
\* the files that show no other fault: a header, every line well formed.
C9_CrcMismatchQuarantines ==
  [][(IsLoad /\ HasHeader(disk.state.lines) /\ HasFooter(disk.state.lines)
        /\ (\A i \in 1 .. Len(disk.state.lines) : ~MalformedLine(disk.state.lines[i]))
        /\ ~Intact(disk.state))
       => StartedEmptyAndQuarantined]_vars

ExeFacts(s) ==
  {[path |-> p, time |-> s.exe[p].time, pool |-> s.exe[p].pool,
    raw_launches |-> s.exe[p].raw_launches,
    total_duration_sec |-> s.exe[p].total_duration_sec] : p \in s.exes}

ExeMapFacts(s) ==
  {[exe |-> p, map |-> key, count |-> CountRefs(s.exe[p].exemaps, key)] :
     p \in s.exes, key \in MapKeys}

MarkovFacts(s) ==
  {[a |-> s.markov[id].a, b |-> s.markov[id].b, time |-> s.markov[id].time,
    weight |-> s.markov[id].weight] : id \in DOMAIN s.markov}

\* the same exes (time, pool, raw_launches, total_duration_sec), the same
\* maps, the same exe-map associations, the same markov pairs (time and
\* weights); seq numbers are free to differ
Equivalent(s1, s2) ==
  /\ ExeFacts(s1) = ExeFacts(s2)
  /\ s1.maps = s2.maps
  /\ ExeMapFacts(s1) = ExeMapFacts(s2)
  /\ MarkovFacts(s1) = MarkovFacts(s2)
  /\ Cardinality(DOMAIN s1.markov) = Cardinality(DOMAIN s2.markov)

\* C10 as stated: whenever a save has completed, loading the file it wrote
\* gives a state equivalent to the one in memory.
C10_RoundTripAnyState ==
  fresh => \A r \in LoadOutcomes(disk.state) : Equivalent(kp_state, r.s)

\* C10, amended: the same for every state that holds at least one exe.
C10_RoundTripWithExes ==
  (fresh /\ kp_state.exes # {}) =>
     \A r \in LoadOutcomes(disk.state) : Equivalent(kp_state, r.s)

\* a saved state with three exes, shared maps and a markov that has counted
\* a transition
C10_Witness ==
  /\ fresh
  /\ Cardinality(kp_state.exes) = 3
  /\ Cardinality(kp_state.maps) >= 2
  /\ \E id \in DOMAIN kp_state.markov :
       /\ kp_state.markov[id].weight # ZeroWeight
       /\ kp_state.markov[id].time > 0

(***************************************************************************)
(* The control surface.                                                    *)
(***************************************************************************)
\* the step in which the main loop dispatches sig_handler_sync for sig
Handles(sig) == Dispatches(sig) /\ pending' = Tail(pending)

\* C11: the save verb writes the state file whatever dirty is: a SIGUSR2
\* dispatched while dirty is false starts the write (opens the temporary
\* file), as one dispatched while dirty is true does.
C11_Sigusr2WritesWhenClean ==
  [][(Handles("SIGUSR2") /\ ~kp_state.dirty) => pc' = "sv_open"]_vars

\* the steps in which kp_state_save gives up: the open of the temporary
\* file fails, the write fails, the rename fails
SaveFails ==
  \/ pc = "run" /\ kp_state.dirty /\ SaveOpen /\ pc' # "sv_open"
  \/ SaveAbort
  \/ SaveRename /\ ~fresh'

\* C12: a save that fails leaves the state dirty, so that the next save
\* writes again.
C12_FailedSaveStaysDirty == [][SaveFails => kp_state'.dirty]_vars

\* the calls of a cycle that issue readahead
Readahead(ops) ==
  \E i \in 1 .. Len(ops) : ops[i] \in {"kp_session_preload_top_apps", "kp_prophet_predict"}

\* a step of kp_state_tick: the only callback that arms kp_state_tick2
TickStep ==
  /\ pc = "run" /\ timers.kp_state_tick > 0
  /\ timers'.kp_state_tick2 = timers.kp_state_tick2 + 1

\* the pause the daemon holds and that has not expired; before its first
\* check, the one it will load from the file
PauseInForce ==
  IF pause_state.initialized
  THEN pause_state.active /\ (pause_state.expiry = 0 \/ clock < pause_state.expiry)
  ELSE pausefile.exists /\ (pausefile.expiry = 0 \/ clock < pausefile.expiry)

\* C13: a kp_state_tick that runs while a pause is active and has not
\* expired calls neither kp_prophet_predict nor
\* kp_session_preload_top_apps: no readahead is issued in that tick.
C13_PausedTickIssuesNoReadahead ==
  [][(TickStep /\ PauseInForce) => ~Readahead(cycle_ops')]_vars

\* a tick has run under an until-reboot or a timed pause and has only scanned
C13_Witness ==
  /\ pc = "run" /\ timers.kp_state_tick2 = 1
  /\ pause_state.active /\ PauseInForce
  /\ cycle_ops = <<"kp_spy_scan">>

\* the pause file holds a pause that has not expired
FilePauseInForce ==
  pausefile.exists /\ (pausefile.expiry = 0 \/ clock < pausefile.expiry)

\* C14: the pause file is polled: a pause preheat-ctl writes while the
\* daemon runs is seen by it, so every predicting tick before the expiry in
\* the file issues no readahead.
C14_PauseFileIsPolled ==
  [][(TickStep /\ kp_conf.dopredict /\ FilePauseInForce) => ~Readahead(cycle_ops')]_vars

\* C15: after preheat-ctl resume has removed the pause file while the daemon
\* holds an active pause, the pause is cleared in the daemon and the next
\* predicting tick calls the predictor.
C15_ResumeClearsPause ==
  [][(TickStep /\ kp_conf.dopredict /\ pause_state.active /\ ~pausefile.exists)
       => (~pause_state'.active /\ Readahead(cycle_ops'))]_vars

\* C16: kp_pause_is_active, called by a predicting tick: once the clock has
\* reached the expiry of a timed pause it returns FALSE, clears pause_state
\* and removes the pause file; with no pause held it returns FALSE, and
\* nothing in the daemon makes the pause active again; a pause with expiry 0
\* stays active whatever the clock.
C16_TimedPauseExpires ==
  [][/\ (TickStep /\ kp_conf.dopredict /\ pause_state.active
           /\ pause_state.expiry # 0 /\ clock >= pause_state.expiry)
          => (~pause_state'.active /\ ~pausefile'.exists /\ Readahead(cycle_ops'))
     /\ (TickStep /\ kp_conf.dopredict /\ pause_state.initialized /\ ~pause_state.active)
          => (~pause_state'.active /\ Readahead(cycle_ops'))
     /\ (pause_state.initialized /\ ~pause_state.active /\ pause_state'.initialized)
          => ~pause_state'.active
     /\ (TickStep /\ kp_conf.dopredict /\ pause_state.active /\ pause_state.expiry = 0)
          => (pause_state'.active /\ ~Readahead(cycle_ops'))]_vars

\* the daemon holds a timed pause whose expiry the clock has reached, and the
\* tick that will find it expired is due
C16_Witness ==
  /\ pc = "run" /\ ~stopping /\ timers.kp_state_tick = 1
  /\ kp_state.time + kp_conf.cycle <= MaxTime
  /\ kp_conf.dopredict
  /\ pause_state.active /\ pause_state.expiry # 0 /\ clock >= pause_state.expiry
  /\ pausefile.exists

\* the order of the calls within one cycle
TickOrder ==
  <<"kp_spy_scan", "kp_session_preload_top_apps", "kp_prophet_predict", "kp_spy_update_model">>

Position(op) == CHOOSE i \in 1 .. Len(TickOrder) : TickOrder[i] = op

InTickOrder(ops) ==
  \A i, j \in 1 .. Len(ops) : i < j => Position(ops[i]) < Position(ops[j])

\* kp_state_tick or kp_state_tick2 has run: nothing else moves the time of
\* a running daemon
TickCallback == pc = "run" /\ pc' = "run" /\ kp_state'.time # kp_state.time

\* C17: as long as the process lives exactly one of the timers of
\* kp_state_tick and kp_state_tick2 is pending; each of the two callbacks
\* hands over to the other, so the two strictly alternate; and within a
\* cycle the scan comes before the prediction and the prediction before the
\* model update.
C17_TicksAlternate ==
  [][/\ pc' # "down" => timers'.kp_state_tick + timers'.kp_state_tick2 = 1
     /\ TickCallback => /\ timers'.kp_state_tick # timers.kp_state_tick
                        /\ timers'.kp_state_tick2 # timers.kp_state_tick2
     /\ InTickOrder(cycle_ops')]_vars

\* the second cycle is over: it scanned, boosted, predicted and updated the
\* model, and kp_state_tick is armed for the third
C17_Witness ==
  /\ pc = "run" /\ kp_state.time > kp_conf.cycle
  /\ timers.kp_state_tick = 1 /\ timers.kp_state_tick2 = 0
  /\ cycle_ops = TickOrder

\* kp_state_save is partway through: its file is open and not yet in place
SaveInProgress == pc \in {"sv_open", "sv_written", "sv_synced", "sv_nosync", "sv_failed"}

\* a sig_handler_sync source leaves the main loop: its handler runs
HandlerStarts == pending # <<>> /\ pending' = Tail(pending) /\ pc' # "down"

\* C18: however signals and timers interleave, sig_handler_sync (reload,
\* dump, save, stop) starts only when the main loop is between callbacks;
\* while a kp_state_save is partway through, whether it was started by the
\* autosave timer or by SIGUSR2, no handler starts, no tick runs and neither
\* the configuration nor the stop request changes.
C18_HandlersBetweenCallbacks ==
  [][/\ HandlerStarts => (pc = "run" /\ ~stopping)
     /\ SaveInProgress => /\ ~HandlerStarts
                          /\ ~TickCallback
                          /\ cycle_ops' = cycle_ops
                          /\ kp_state'.time = kp_state.time
                          /\ UNCHANGED <<kp_conf, stopping>>]_vars

\* a stop signal has arrived in the middle of a save and waits in the loop
C18_Witness ==
  /\ pc = "sv_written"
  /\ pending = <<"SIGTERM">>
  /\ ~stopping

\* a stop signal has been delivered to the running daemon
StopDelivered ==
  pc # "down" /\ (hung \in StopSignals \/ (pending # <<>> /\ Head(pending) \in StopSignals))

\* C19: once a stop signal (TERM, INT or QUIT) has been delivered, the
\* callback in flight completes, no further tick starts, the state is saved
\* once and the process exits.
C19_StopSignalExits == StopDelivered ~> pc = "down"

\* once g_main_loop_quit has been called no tick runs, and after the
\* kp_state_save of main no other is started
C19_NoTickAfterQuit ==
  [][stopping => (~TickCallback /\ cycle_ops' \in {cycle_ops, <<>>}
                  /\ (pc = "free" => pc' \in {"free", "down", "hung"}))]_vars

\* the exe read_exe has registered carries these values
ExeIs(path, pool, weighted_launches, raw_launches, total_duration) ==
  /\ kp_state.exes = {path}
  /\ kp_state.exe[path].pool = pool
  /\ kp_state.exe[path].weighted_launches = weighted_launches
  /\ kp_state.exe[path].raw_launches = raw_launches
  /\ kp_state.exe[path].total_duration_sec = total_duration

\* C20: read_exe takes EXE lines of 9, 6 and 5 columns.  Nine columns: the
\* exe gets the pool and the three counters of the line.  Six columns: the
\* pool of the line, weighted_launches, raw_launches and total_duration 0.
\* Five columns: pool observation and the counters 0.  Fewer columns: a
\* syntax error, and no exe.
C20_ReadExeWidths ==
  pc \in {"exe_read", "exe_syntax_error", "exe_error"} =>
    LET f == disk.state.lines[1].f
        n == Len(f)
    IN /\ n = 9 => /\ pc = "exe_read"
                   /\ ExeIs(f[9].n, f[5].n, <<f[6].n, f[6].d>>, f[7].n, f[8].n)
                   /\ kp_state.exe[f[9].n].update_time = f[2].n
                   /\ kp_state.exe[f[9].n].time = f[3].n
       /\ n = 6 => /\ pc = "exe_read"
                   /\ ExeIs(f[6].n, f[5].n, Zero, 0, 0)
       /\ n = 5 => /\ pc = "exe_read"
                   /\ ExeIs(f[5].n, POOL_OBSERVATION, Zero, 0, 0)
       /\ n < 5 => /\ pc = "exe_syntax_error"
                   /\ kp_state.exes = {}

\* a six-column line of a priority-pool exe has been read
C20_Witness ==
  /\ pc = "exe_read"
  /\ Len(disk.state.lines[1].f) = 6
  /\ disk.state.lines[1].f[5].n = POOL_PRIORITY
  /\ \E p \in kp_state.exes : kp_state.exe[p].pool = POOL_PRIORITY

\* the file the daemon was given, where it is now
GivenLines == IF disk.state.exists THEN disk.state.lines ELSE disk.broken.lines

\* the map triple, or the exe path, a MAP or EXE line names
ObjectOf(line) ==
  IF line.tag = "MAP"
  THEN <<line.f[Len(line.f)].n, line.f[3].n, line.f[4].n>>
  ELSE <<line.f[Len(line.f)].n>>

DuplicateIndex(a, b) == a.tag = b.tag /\ a.f[1].n = b.f[1].n

DuplicateObject(a, b) == a.tag = b.tag /\ ObjectOf(a) = ObjectOf(b)

\* the object of the line is registered, as the line describes it, and
\* nothing else is
OnlyRegistered(a) ==
  IF a.tag = "MAP"
  THEN LET key == [path |-> a.f[6].n, offset |-> a.f[3].n, length |-> a.f[4].n]
       IN /\ kp_state.maps = {key} /\ kp_state.maps_arr = <<key>>
          /\ DOMAIN kp_state.mapobj = {key}
          /\ kp_state.exes = {}
  ELSE /\ kp_state.exes = {a.f[9].n}
       /\ kp_state.exe[a.f[9].n].update_time = a.f[2].n
       /\ kp_state.exe_seq = 1
       /\ kp_state.maps = {}

\* C21: a MAP or EXE line whose file-local id an earlier line of its kind
\* has used, or whose map triple or exe path is registered already, stops
\* the read with a duplicate error and registers nothing; kp_state_load
\* treats the file as corrupt and moves it away.  Lines of different kinds
\* may share an id.
C21_DuplicateLineIsCorrupt ==
  LET a == GivenLines[2]
      b == GivenLines[3]
  IN /\ pc \in {"lines_read", "lines_duplicate_index", "lines_duplicate_object", "lines_error"} =>
          /\ DuplicateIndex(a, b) => (pc = "lines_duplicate_index" /\ OnlyRegistered(a))
          /\ (~DuplicateIndex(a, b) /\ DuplicateObject(a, b))
               => (pc = "lines_duplicate_object" /\ OnlyRegistered(a))
          /\ (~DuplicateIndex(a, b) /\ ~DuplicateObject(a, b)) => pc = "lines_read"
     /\ pc = "run" =>
          /\ (DuplicateIndex(a, b) \/ DuplicateObject(a, b))
               <=> (~disk.state.exists /\ disk.broken.exists)
          /\ (a.tag = "EXE" /\ (DuplicateIndex(a, b) \/ DuplicateObject(a, b)))
               => kp_state.exes = {a.f[9].n}

\* the second MAP line had a new id and the triple of the first
C21_Witness ==
  /\ pc = "lines_duplicate_object"
  /\ GivenLines[2].tag = "MAP"
  /\ kp_state.maps_arr = <<[path |-> GivenLines[2].f[6].n, offset |-> 0,
                            length |-> GivenLines[2].f[4].n]>>

\* C22 (P5): in every state of the daemon, loaded states among them, the
\* assertion of kp_markov_correlation holds for every markov:
\* (t*ab - a*b)^2 <= a*b*(t-a)*(t-b) up to epsilon, with a positive right
\* side, unless an endpoint has time 0 or state.time, where it returns 0.
C22_CorrelationInRange ==
  pc = "run" =>
    \A id \in DOMAIN kp_state.markov :
      correlation_in_range(kp_markov_correlation(kp_state, id))

\* the markovs the step keeps: same allocation, same pair of exes
KeptMarkovs ==
  {id \in DOMAIN kp_state.markov \cap DOMAIN kp_state'.markov :
     /\ kp_state'.markov[id].a = kp_state.markov[id].a
     /\ kp_state'.markov[id].b = kp_state.markov[id].b}

\* C23 (P4): across a tick, and the calls of kp_markov_state_changed it
\* makes, no weight[i][j] of a markov decreases and every time_to_leave[s]
\* is >= 0 afterwards.
C23_WeightsGrowDwellNonNegative ==
  [][TickCallback =>
       /\ \A id \in KeptMarkovs : \A i, j \in 1 .. 4 :
            kp_state'.markov[id].weight[i][j] >= kp_state.markov[id].weight[i][j]
       /\ \A id \in DOMAIN kp_state'.markov : \A i \in 1 .. 4 :
            kp_state'.markov[id].time_to_leave[i][1] >= 0]_vars

\* C24: in every state of the running daemon, the state a load builds from
\* the running processes (one callback per pid) included, running_exes
\* holds no exe twice and every exe in it has running_timestamp >= 0.
C24_RunningExesDuplicateFree ==
  pc = "run" =>
    /\ \A i, j \in 1 .. Len(kp_state.running_exes) :
         i # j => kp_state.running_exes[i] # kp_state.running_exes[j]
    /\ \A i \in 1 .. Len(kp_state.running_exes) :
         kp_state.exe[kp_state.running_exes[i]].running_timestamp >= 0

\* the exes and maps the step has registered: new in the table, or back in
\* it under another seq
NewlyRegisteredExes ==
  {p \in kp_state'.exes : p \notin kp_state.exes \/ kp_state'.exe[p].seq # kp_state.exe[p].seq}

NewlyRegisteredMaps ==
  {k \in kp_state'.maps : k \notin kp_state.maps \/ kp_state'.mapobj[k].seq # kp_state.mapobj[k].seq}

\* C25: registered exes have pairwise distinct seq, registered maps too, and
\* an object that a step registers gets a seq above every seq its kind has
\* been given in this process so far: above the counter and above the seq
\* of every object registered before the step, whether objects were
\* unregistered in between or the objects came from a load.
C25_SeqUniqueAndGrowing ==
  [][/\ \A p, q \in kp_state'.exes : p # q => kp_state'.exe[p].seq # kp_state'.exe[q].seq
     /\ \A k, l \in kp_state'.maps : k # l => kp_state'.mapobj[k].seq # kp_state'.mapobj[l].seq
     /\ \A p \in NewlyRegisteredExes :
          /\ kp_state'.exe[p].seq > kp_state.exe_seq
          /\ \A q \in kp_state.exes : kp_state'.exe[p].seq > kp_state.exe[q].seq
     /\ \A k \in NewlyRegisteredMaps :
          /\ kp_state'.mapobj[k].seq > kp_state.map_seq
          /\ \A l \in kp_state.maps : kp_state'.mapobj[k].seq > kp_state.mapobj[l].seq]_vars

\* after a load, maps have been unregistered and a map registered since
C25_Witness ==
  /\ pc = "run" /\ boots = 2
  /\ kp_state.exes # {}
  /\ \E k \in kp_state.maps :
       /\ kp_state.mapobj[k].seq = kp_state.map_seq
       /\ kp_state.mapobj[k].seq > Cardinality(kp_state.maps) + 1

\* a SIGHUP has been handled: kp_blacklist_reload has run on the file as it is
ReloadStep ==
  /\ pc = "run" /\ pc' = "run"
  /\ blacklist_file' = blacklist_file
  /\ clock' = clock

Gated == blacklist_file.exists /\ blacklist_file.mtime = blacklist.last_modified

OnlyEntryCharacters(l) ==
  \A i \in 1 .. Len(l) :
    g_ascii_isalnum(l[i]) \/ l[i] = "." \/ l[i] = "_" \/ l[i] = "-"

\* the lines of the file that are made of entry characters and nothing else
EntryLines(file) ==
  IF ~file.exists THEN {}
  ELSE {file.lines[i] : i \in {j \in 1 .. Len(file.lines) :
                                 /\ file.lines[j] # <<>>
                                 /\ OnlyEntryCharacters(file.lines[j])}}

\* C29 as stated: a reload of a file whose mtime is the recorded one leaves
\* entries and count alone, and any other reload makes the entries exactly
\* the lines of the file that consist of [A-Za-z0-9._-] only.
C29_ReloadIsMtimeGated ==
  [][ReloadStep =>
       IF Gated
       THEN blacklist'.entries = blacklist.entries /\ blacklist'.count = blacklist.count
       ELSE blacklist'.entries = EntryLines(blacklist_file)]_vars

\* a line without the blanks before and behind it
Stripped(l) ==
  LET inked == {i \in 1 .. Len(l) : ~g_ascii_isspace(l[i])}
      first == CHOOSE i \in inked : \A j \in inked : i <= j
      last == CHOOSE i \in inked : \A j \in inked : i >= j
  IN IF inked = {} THEN <<>> ELSE SubSeq(l, first, last)

\* a line as it is read: whole, or in runs of 255 characters when it has
\* 255 or more
ReadPieces(l) ==
  {SubSeq(l, (BLACKLIST_LINE_MAX - 1) * k + 1,
          IF (BLACKLIST_LINE_MAX - 1) * (k + 1) < Len(l)
          THEN (BLACKLIST_LINE_MAX - 1) * (k + 1) ELSE Len(l)) :
     k \in 0 .. (Len(l) \div (BLACKLIST_LINE_MAX - 1))}

StrippedEntries(file) ==
  LET pieces == UNION {ReadPieces(file.lines[i]) : i \in 1 .. Len(file.lines)}
      stripped == {Stripped(q) : q \in pieces}
  IN {e \in stripped : /\ e # <<>>
                       /\ Len(e) < BLACKLIST_LINE_MAX - 1
                       /\ OnlyEntryCharacters(e)}

\* C29, amended: a reload of a file whose mtime is the recorded one leaves
\* entries and count alone; any other reload makes the entries exactly the
\* lines of the file, stripped of the blanks around them and a line of 255
\* characters or more taken in runs of 255, that are not empty, are shorter
\* than 255 characters and consist of [A-Za-z0-9._-] only, or makes them
\* empty when the file is absent or cannot be opened.
C29_ReloadStripsLines ==
  [][ReloadStep =>
       IF Gated
       THEN blacklist'.entries = blacklist.entries /\ blacklist'.count = blacklist.count
       ELSE \/ blacklist_file.exists /\ blacklist'.entries = StrippedEntries(blacklist_file)
            \/ blacklist'.entries = {}]_vars

\* the file was loaded with its two entries and saved again within the
\* second with another line: the entries of the load are still held
C29_Witness ==
  /\ pc = "run"
  /\ Gated
  /\ blacklist.entries = {<<"a">>, <<"b", ".", "c">>}
  /\ blacklist.count = 2
  /\ blacklist_file.lines = <<<<"a", "/", "b">>>>

\* the directory a prefix names: the prefix without the slashes at its end
RECURSIVE DirectoryOf(_)
DirectoryOf(prefix) ==
  IF prefix # <<>> /\ prefix[Len(prefix)] = "/"
  THEN DirectoryOf(SubSeq(prefix, 1, Len(prefix) - 1))
  ELSE prefix

\* the prefix names a directory, and path is that directory or is under it
EqualsOrContains(prefix, path) ==
  LET dir == DirectoryOf(prefix) IN
  /\ prefix # <<>>
  /\ \/ path = dir
     \/ path = prefix
     \/ /\ Len(path) > Len(dir)
        /\ SubSeq(path, 1, Len(dir)) = dir
        /\ path[Len(dir) + 1] = "/"

IsAbsolute(text) == text # <<>> /\ text # NullString /\ Head(text) = "/"

\* C26: called with an absolute path and prefixes that are absolute or NULL,
\* kp_path_in_directories returns TRUE exactly when one of the count
\* prefixes names a directory that is the path or contains it, a prefix
\* written with a slash at its end ("/opt/") included.
C26_InDirectoriesIffContained ==
  (/\ call.fn = "kp_path_in_directories" /\ call.returned
   /\ IsAbsolute(call.args.path)
   /\ \A i \in 1 .. call.args.count :
        call.args.prefixes[i] = NullString \/ IsAbsolute(call.args.prefixes[i])) =>
    (call.result <=>
       \E i \in 1 .. call.args.count :
         /\ call.args.prefixes[i] # NullString
         /\ EqualsOrContains(call.args.prefixes[i], call.args.path))

\* C30: called on a markov whose state s is not the joint state s' of its
\* exes and whose change_timestamp is not state.time, kp_markov_state_changed
\* adds 1 to weight[s][s] and to weight[s][s'], leaves the other fourteen
\* weights and the other three time_to_leave alone, sets state to s' and
\* change_timestamp to state.time and touches nothing else; called again at
\* the same state.time it changes nothing.
C30_StateChangedFrame ==
  [][/\ pc = "call" =>
          \A id \in DOMAIN kp_state.markov :
            LET m == kp_state.markov[id]
                n == kp_state'.markov[id]
                s == m.state
                t == markov_state(kp_state, m)
            IN (s \in 0 .. 3 /\ s # t /\ m.change_timestamp # kp_state.time) =>
                 /\ n.weight[s + 1][s + 1] = m.weight[s + 1][s + 1] + 1
                 /\ n.weight[s + 1][t + 1] = m.weight[s + 1][t + 1] + 1
                 /\ \A i, j \in 1 .. 4 :
                      <<i, j>> \notin {<<s + 1, s + 1>>, <<s + 1, t + 1>>}
                        => n.weight[i][j] = m.weight[i][j]
                 /\ \A i \in 1 .. 4 : i # s + 1 => n.time_to_leave[i] = m.time_to_leave[i]
                 /\ n.state = t
                 /\ n.change_timestamp = kp_state.time
                 /\ n.a = m.a /\ n.b = m.b /\ n.time = m.time
                 /\ kp_state' = [kp_state EXCEPT !.markov[id] = n]
     /\ pc = "called" => kp_state' = kp_state]_vars

\* both exes have started since the markov recorded that neither ran: after
\* the two calls the visit of state 0 and the transition 0 -> 3 are counted
\* once
C30_Witness ==
  /\ pc = "called_again"
  /\ \E id \in DOMAIN kp_state.markov :
       LET m == kp_state.markov[id] IN
       /\ m.state = 3
       /\ m.change_timestamp = kp_state.time
       /\ m.weight = <<<<2, 0, 2, 2>>, <<0, 3, 1, 0>>, <<2, 0, 1, 0>>, <<1, 1, 0, 4>>>>

\* a step of the main loop over which p is the one exe that runs
RunsAlone(p) ==
  /\ pc = "run" /\ pc' = "run"
  /\ kp_state.running_exes = <<p>>
  /\ kp_state'.running_exes = <<p>>

\* kp_state_tick2 has run
TickBStep == timers.kp_state_tick2 > 0 /\ timers' = tick2_arms(timers)

\* C27 (P10): over a full cycle (kp_state_tick, kp_state_tick2, the next
\* kp_state_tick) during which one exe runs and no other, no markov is
\* created, and the exe's time, which moves in kp_state_tick2 only, has grown
\* by exactly cycle.
C27_FullCycleAddsCycle ==
  [][\A p \in Paths :
       RunsAlone(p) =>
         /\ DOMAIN kp_state'.markov = DOMAIN kp_state.markov
         /\ IF TickBStep
            THEN kp_state'.exe[p].time = kp_state.exe[p].time + kp_conf.cycle
            ELSE kp_state'.exe[p].time = kp_state.exe[p].time]_vars

RECURSIVE TotalLength(_)
TotalLength(maps) == IF maps = <<>> THEN 0 ELSE Head(maps).length + TotalLength(Tail(maps))

\* C28: the maps one predict pass hands to readahead are together no longer
\* than the budget computed from memstat and the memtotal, memfree and
\* memcached percentages (100 MiB for memfree = 50 and 200 MiB free), and
\* they are a greedy prefix of the candidates by descending utility density:
\* in that order, none left out that is denser than one taken, and the
\* densest map left out does not fit into what remains of the budget.
C28_ReadaheadWithinBudget ==
  (call.fn = "kp_prophet_predict" /\ call.returned) =>
    LET budget == memory_budget(call.args.memstat, call.args.model)
        taken == {call.result[i] : i \in DOMAIN call.result}
        left == call.args.candidates \ taken
    IN /\ TotalLength(call.result) <= budget
       /\ (/\ call.args.model = [memtotal |-> 0, memfree |-> 50, memcached |-> 0]
           /\ call.args.memstat.free = 200) => budget = 100
       /\ taken \subseteq call.args.candidates
       /\ Cardinality(taken) = Len(call.result)
       /\ \A i, j \in DOMAIN call.result :
            i < j => call.result[i].density >= call.result[j].density
       /\ \A c \in taken, d \in left : c.density >= d.density
       /\ left # {} =>
            \E d \in left :
              /\ \A e \in left : d.density >= e.density
              /\ TotalLength(call.result) + d.length > budget

\* memfree = 50 and 200 MiB free, candidates of 300 MiB: the 60 MiB and the
\* 40 MiB map went to readahead, 100 MiB
C28_Witness ==
  /\ call.fn = "kp_prophet_predict" /\ call.returned
  /\ call.args.model = [memtotal |-> 0, memfree |-> 50, memcached |-> 0]
  /\ call.args.memstat.free = 200
  /\ call.args.candidates = CandidatePool
  /\ Len(call.result) = 2
  /\ TotalLength(call.result) = 100

(***************************************************************************)
(* The two tick callbacks under every setting of [system] doscan and       *)
(* dopredict and under even and odd cycles: the daemon starts without a    *)
(* state file, and a SIGHUP makes it read a configuration whose [system]   *)
(* section was edited.                                                     *)
(***************************************************************************)
TickCycles == {1, 2, 3}

TickConfs ==
  {[cycle |-> c, doscan |-> s, dopredict |-> p] :
     c \in TickCycles, s \in BOOLEAN, p \in BOOLEAN}

InitTick ==
  /\ kp_state = EmptyState
  /\ kp_conf \in TickConfs
  /\ pc = "down"
  /\ timers = NoTimers
  /\ stopping = FALSE
  /\ disk = [state |-> NoFile, tmp |-> NoFile, broken |-> NoFile]
  /\ fresh = FALSE
  /\ boots = 0
  /\ pending = <<>>
  /\ hung = ""
  /\ pause_state = PauseZero
  /\ pausefile = NoPauseFile
  /\ clock = 0
  /\ cycle_ops = <<>>
  /\ blacklist = BlacklistZero
  /\ blacklist_file = NoBlacklistFile
  /\ call = NoCall

\* a SIGHUP dispatched while the main loop is idle; model.cycle is as it was
SighupTick ==
  /\ pc = "run" /\ ~stopping
  /\ sighup_case({c \in TickConfs : c.cycle = kp_conf.cycle}, {0})
  /\ UNCHANGED pending

NextTick ==
  \/ StartCtl
  \/ TickCtl
  \/ Tick2
  \/ SighupTick

SpecTick == InitTick /\ [][NextTick]_vars

\* kp_state_tick2 called kp_spy_update_model
UpdaterRuns == cycle_ops' = cycle_ops \o <<"kp_spy_update_model">>

\* C31: kp_state_tick2 runs the model updater if and only if model_dirty is
\* set, and model_dirty is false after every kp_state_tick2; kp_state_tick
\* sets dirty and model_dirty exactly when doscan is enabled and leaves them
\* alone otherwise, so that the updater runs only in a cycle whose
\* kp_state_tick scanned: never while doscan is disabled.
C31_UpdaterRunsIffModelDirty ==
  [][/\ TickBStep =>
          /\ UpdaterRuns <=> kp_state.model_dirty
          /\ ~kp_state'.model_dirty
          /\ UpdaterRuns <=> ("kp_spy_scan" \in SeqSet(cycle_ops))
          /\ UpdaterRuns \/ cycle_ops' = cycle_ops
     /\ TickStep =>
          IF kp_conf.doscan
          THEN kp_state'.dirty /\ kp_state'.model_dirty
          ELSE /\ kp_state'.dirty = kp_state.dirty
               /\ kp_state'.model_dirty = kp_state.model_dirty
               /\ "kp_spy_scan" \notin SeqSet(cycle_ops')]_vars

\* a cycle with doscan disabled is over: kp_state_tick2 found model_dirty
\* clear and did not run the updater, after an earlier cycle that scanned
\* and updated
C31_Witness ==
  /\ pc = "run" /\ ~kp_conf.doscan
  /\ timers.kp_state_tick = 1
  /\ kp_state.time = 2 * kp_conf.cycle
  /\ 1 \in kp_state.exes
  /\ "kp_spy_update_model" \notin SeqSet(cycle_ops)
  /\ ~kp_state.model_dirty

RegisterExeCall ==
  /\ pc = "run" /\ ~stopping
  /\ \E p \in Paths \ kp_state.exes, create_markovs \in BOOLEAN :
       /\ kp_state' = kp_state_register_exe(kp_exe_new(kp_state, p, FALSE, <<>>, POOL_OBSERVATION),
                                            p, create_markovs)
       /\ call' = [fn |-> "kp_state_register_exe",
                   args |-> [exe |-> p, create_markovs |-> create_markovs, before |-> kp_state],
                   returned |-> TRUE, result |-> FALSE]
  /\ pc' = "called"
  /\ fresh' = FALSE
  /\ UNCHANGED <<boots, kp_conf, timers, stopping, disk, blacklist, blacklist_file>>
  /\ UNCHANGED ctl

\* kp_state_unregister_exe on a registered exe
UnregisterExeCall ==
  /\ pc = "run" /\ ~stopping
  /\ \E p \in kp_state.exes :
       /\ kp_state' = kp_state_unregister_exe(kp_state, p)
       /\ call' = [fn |-> "kp_state_unregister_exe",
                   args |-> [exe |-> p, create_markovs |-> FALSE, before |-> kp_state],
                   returned |-> TRUE, result |-> FALSE]
  /\ pc' = "called"
  /\ fresh' = FALSE
  /\ UNCHANGED <<boots, kp_conf, timers, stopping, disk, blacklist, blacklist_file>>
  /\ UNCHANGED ctl

\* kp_exe_free as the value destructor of kp_state->exes: the entry of a
\* registered exe leaves the table and the exe is freed
ExeFreeCall ==
  /\ pc = "run" /\ ~stopping
  /\ \E p \in kp_state.exes :
       /\ kp_state' = [kp_exe_free(kp_state, p) EXCEPT !.exes = @ \ {p}]
       /\ call' = [fn |-> "kp_exe_free",
                   args |-> [exe |-> p, create_markovs |-> FALSE, before |-> kp_state],
                   returned |-> TRUE, result |-> FALSE]
  /\ pc' = "called"
  /\ fresh' = FALSE
  /\ UNCHANGED <<boots, kp_conf, timers, stopping, disk, blacklist, blacklist_file>>
  /\ UNCHANGED ctl

NextRegistry ==
  \/ Start
  \/ Tick
  \/ Tick2
  \/ RegisterExeCall
  \/ UnregisterExeCall
  \/ ExeFreeCall

SpecRegistry == Init /\ [][NextRegistry]_vars

\* the markovs of s between the exes p and q, and those that p is an end of
MarkovsJoining(s, p, q) ==
  {id \in DOMAIN s.markov : {s.markov[id].a, s.markov[id].b} = {p, q}}

MarkovsOn(s, p) == {id \in DOMAIN s.markov : p \in {s.markov[id].a, s.markov[id].b}}

\* the call of fn that has just returned
Returned(fn) == pc = "called" /\ call.fn = fn /\ call.returned

\* no markov that was on the exe of the call is left, in the state or in the
\* set of any exe
IncidentMarkovsGone ==
  /\ MarkovsOn(call.args.before, call.args.exe) \cap DOMAIN kp_state.markov = {}
  /\ \A q \in DOMAIN kp_state.exe :
       kp_state.exe[q].markovs \cap MarkovsOn(call.args.before, call.args.exe) = {}

\* kp_state_register_exe(exe, TRUE) has made one markov with every exe that
\* was registered, none with the exe itself, and no other
OneMarkovPerRegisteredExe ==
  /\ \A q \in call.args.before.exes :
       Cardinality(MarkovsJoining(kp_state, call.args.exe, q)) = 1
  /\ MarkovsJoining(kp_state, call.args.exe, call.args.exe) = {}
  /\ Cardinality(DOMAIN kp_state.markov)
       = Cardinality(DOMAIN call.args.before.markov) + Cardinality(call.args.before.exes)
  /\ kp_state.exe[call.args.exe].markovs = MarkovsOn(kp_state, call.args.exe)

\* C33: kp_state_register_exe with create_markovs = TRUE creates exactly one
\* markov between the new exe and each exe already registered, and none
\* with itself; kp_exe_free and kp_state_unregister_exe destroy every markov
\* incident on the exe and take each out of the partner's set.
C33_MarkovsFollowTheirExes ==
  /\ (Returned("kp_state_register_exe") /\ call.args.create_markovs) => OneMarkovPerRegisteredExe
  /\ Returned("kp_exe_free") => IncidentMarkovsGone
  /\ Returned("kp_state_unregister_exe") => IncidentMarkovsGone

\* the two thirds of C33 that kp_state_register_exe and kp_exe_free keep
RegisterAndFreeKeepMarkovs ==
  /\ (Returned("kp_state_register_exe") /\ call.args.create_markovs) => OneMarkovPerRegisteredExe
  /\ Returned("kp_exe_free") => IncidentMarkovsGone

(***************************************************************************)
(* read_state on files whose EXEMAP and MARKOV lines name ids that the     *)
(* file defines, defines later, or never defines: a header and four lines, *)
(* read by the loop of read_state and, from the same file, by the whole    *)
(* kp_state_load while none, one or both of the executables run.           *)
(***************************************************************************)
RefMapLine ==
  Line("MAP", <<FmtD(1), FmtD(0), FmtD(K1.offset), FmtD(K1.length), FmtD(-1),
                g_filename_to_uri(K1.path)>>)

\* the EXE line of the exe with seq i and path i
RefExeLine(i) ==
  Line("EXE", <<FmtD(i), FmtD(0), FmtD(0), FmtD(-1), FmtD(POOL_OBSERVATION),
                Fmt6f(Zero), FmtD(0), FmtD(0), g_filename_to_uri(i)>>)

RefExemapLine(iexe, imap) == Line("EXEMAP", <<FmtD(iexe), FmtD(imap), FmtLg(One)>>)

RefMarkovLine(ia, ib) ==
  Line("MARKOV", <<FmtD(ia), FmtD(ib), FmtD(0)>>
                 \o [i \in 1 .. 4 |-> FmtLg(Zero)] \o WeightFields(ZeroWeight))

\* the file defines the map 1 and the exes 1 and 2 at most
RefLines ==
  {RefMapLine} \cup {RefExeLine(i) : i \in {1, 2}}
  \cup {RefExemapLine(iexe, imap) : iexe \in {1, 2}, imap \in {1, 2}}
  \cup {RefMarkovLine(ia, ib) : ia \in {1, 2}, ib \in {1, 2}}

RefFiles == {<<write_header(EmptyState), a, b, c, d>> : a, b, c, d \in RefLines}

\* one pid per entry: nothing runs, one of the two runs, both run
RefProcLists == {<<>>, <<1>>, <<2>>, <<1, 2, 2>>}

InitRefs ==
  /\ kp_state = EmptyState
  /\ kp_conf \in Confs
  /\ pc = "down"
  /\ timers = NoTimers
  /\ stopping = FALSE
  /\ disk \in {[state |-> File(lines), tmp |-> NoFile, broken |-> NoFile] : lines \in RefFiles}
  /\ fresh = FALSE
  /\ boots = 0
  /\ pending = <<>>
  /\ hung = ""
  /\ pause_state = PauseZero
  /\ pausefile = NoPauseFile
  /\ clock = 0
  /\ cycle_ops = <<>>
  /\ blacklist = BlacklistZero
  /\ blacklist_file = NoBlacklistFile
  /\ call = NoCall

\* the loop of read_state over the lines, up to the first error; the error
\* is the result
ReadRefLines ==
  /\ pc = "down" /\ boots = 0
  /\ \E junk \in JunkInts :
       LET rc0 == [s |-> kp_state, maps |-> EmptyFun, exes |-> EmptyFun,
                   errmsg |-> "", lineno |-> 0, stop |-> FALSE]
           returned(rc1) ==
             /\ kp_state' = rc1.s
             /\ call' = [fn |-> "read_state", args |-> <<>>, returned |-> TRUE,
                         result |-> rc1.errmsg]
       IN returned(read_lines(rc0, disk.state.lines, junk))
  /\ pc' = "called"
  /\ UNCHANGED <<kp_conf, timers, stopping, disk, fresh, boots, blacklist, blacklist_file>>
  /\ UNCHANGED ctl

\* the daemon is started on the file
StartRefs ==
  /\ boots < MaxCtlBoots
  /\ StartFrom(LoadOutcomesOver(disk.state, RefProcLists, {EmptyFun}, JunkInts))

NextRefs ==
  \/ ReadRefLines
  \/ StartRefs

SpecRefs == InitRefs /\ [][NextRefs]_vars

\* the ids the lines of one tag before line i define
IdsBefore(lines, i, tag) ==
  {lines[j].f[1].n : j \in {k \in 1 .. (i - 1) : lines[k].tag = tag}}

\* line i names an exe id or a map id that no line before it defines
Dangling(lines, i) ==
  \/ /\ lines[i].tag = "EXEMAP"
     /\ \/ lines[i].f[1].n \notin IdsBefore(lines, i, "EXE")
        \/ lines[i].f[2].n \notin IdsBefore(lines, i, "MAP")
  \/ /\ lines[i].tag = "MARKOV"
     /\ \/ lines[i].f[1].n \notin IdsBefore(lines, i, "EXE")
        \/ lines[i].f[2].n \notin IdsBefore(lines, i, "EXE")

\* line i defines an id a second time
Repeated(lines, i) ==
  /\ lines[i].tag \in {"MAP", "EXE"}
  /\ lines[i].f[1].n \in IdsBefore(lines, i, lines[i].tag)

\* line i is a MARKOV line from a defined exe to itself
SelfEdge(lines, i) ==
  /\ lines[i].tag = "MARKOV"
  /\ ~Dangling(lines, i)
  /\ lines[i].f[1].n = lines[i].f[2].n

\* the first line read_state cannot take, 0 if it can take them all
FirstFailure(lines) ==
  LET bad == {i \in 1 .. Len(lines) :
                Dangling(lines, i) \/ Repeated(lines, i) \/ SelfEdge(lines, i)}
  IN IF bad = {} THEN 0 ELSE CHOOSE i \in bad : \A j \in bad : i <= j

DanglingFirst(lines) == FirstFailure(lines) # 0 /\ Dangling(lines, FirstFailure(lines))

\* the path or the triple that the line with this id before line i defines
ObjectBefore(lines, i, tag, id) ==
  ObjectOf(lines[CHOOSE k \in 1 .. (i - 1) : lines[k].tag = tag /\ lines[k].f[1].n = id])

\* the exemap of exe p on the map key, and the markov between a and b, were
\* read from a line whose ids are defined before it
ExemapDefined(lines, p, key) ==
  \E i \in 1 .. Len(lines) :
    /\ lines[i].tag = "EXEMAP" /\ ~Dangling(lines, i)
    /\ ObjectBefore(lines, i, "EXE", lines[i].f[1].n) = <<p>>
    /\ ObjectBefore(lines, i, "MAP", lines[i].f[2].n) = <<key.path, key.offset, key.length>>

MarkovDefined(lines, a, b) ==
  \E i \in 1 .. Len(lines) :
    /\ lines[i].tag = "MARKOV" /\ ~Dangling(lines, i)
    /\ ObjectBefore(lines, i, "EXE", lines[i].f[1].n) = <<a>>
    /\ ObjectBefore(lines, i, "EXE", lines[i].f[2].n) = <<b>>

\* C34: an EXEMAP line that names an exe id or a map id, or a MARKOV line
\* that names an exe id, which no earlier EXE or MAP line of the file
\* defines makes read_state fail with READ_INDEX_ERROR, and kp_state_load
\* renames the file aside; no exemap and no markov is ever attached to an
\* object that the file did not define before the line.
C34_UndefinedIdIsIndexError ==
  /\ (Returned("read_state") /\ DanglingFirst(disk.state.lines)) =>
       call.result = READ_INDEX_ERROR
  /\ (boots = 1 /\ DanglingFirst(GivenLines)) =>
       disk.broken.exists /\ ~disk.state.exists
  /\ Returned("read_state") =>
       /\ \A p \in DOMAIN kp_state.exe :
            \A k \in 1 .. Len(kp_state.exe[p].exemaps) :
              ExemapDefined(disk.state.lines, p, kp_state.exe[p].exemaps[k].map)
       /\ \A id \in DOMAIN kp_state.markov :
            MarkovDefined(disk.state.lines, kp_state.markov[id].a, kp_state.markov[id].b)

\* the EXEMAP line comes before the EXE line that defines its exe: the read
\* stopped there, with the map read and no exe
C34_Witness ==
  /\ Returned("read_state")
  /\ call.result = READ_INDEX_ERROR
  /\ SubSeq(disk.state.lines, 2, 4) = <<RefMapLine, RefExemapLine(1, 1), RefExeLine(1)>>
  /\ kp_state.exes = {}

\* C36: after any sequence of exe registrations, unregistrations and state
\* loads there is at most one markov for each unordered pair of exes.
C36_OneMarkovPerPair ==
  \A p, q \in DOMAIN kp_state.exe : Cardinality(MarkovsJoining(kp_state, p, q)) <= 1

\* the file names the same exe at both ends of a MARKOV line, and that line
\* is the first the reader cannot take
SelfEdgeFirst(lines) == FirstFailure(lines) # 0 /\ SelfEdge(lines, FirstFailure(lines))

\* C37: every markov has a # b in every reachable state, and a MARKOV line
\* that names one exe id for both ends is a load error: read_state returns
\* an error message, kp_state_load renames the file aside and the daemon
\* runs on, and no markov from an exe to itself is made.
C37_SelfEdgeIsLoadError ==
  /\ \A id \in DOMAIN kp_state.markov : kp_state.markov[id].a # kp_state.markov[id].b
  /\ (Returned("read_state") /\ SelfEdgeFirst(disk.state.lines)) =>
       call.result \notin {"", SEGV}
  /\ (boots = 1 /\ SelfEdgeFirst(GivenLines)) =>
       pc = "run" /\ disk.broken.exists /\ ~disk.state.exists

\* the half of C37 that holds: no markov joins an exe to itself
NoSelfEdge ==
  \A id \in DOMAIN kp_state.markov : kp_state.markov[id].a # kp_state.markov[id].b

\* the daemon runs on a state it loaded without an error
LoadedWell == pc = "run" /\ boots = 1 /\ disk.state.exists /\ ~disk.broken.exists

\* the joint state the snapshot gives: bit 0 for a, bit 1 for b, an exe
\* running when set_running_process_callback found it in the snapshot
SnapshotState(s, m) ==
  (IF m.a \in SeqSet(s.running_exes) THEN 1 ELSE 0)
  + (IF m.b \in SeqSet(s.running_exes) THEN 2 ELSE 0)

\* C39: after a successful load the state of every markov read from the
\* file is the joint running state of its two exes in the snapshot of the
\* running processes that read_state takes at its end.
C39_LoadedMarkovStateIsSnapshot ==
  LoadedWell =>
    \A id \in DOMAIN kp_state.markov :
      kp_state.markov[id].state = SnapshotState(kp_state, kp_state.markov[id])

\* the file held the markov of the exes 1 and 2, and exe 2 alone was running
C39_Witness ==
  /\ LoadedWell
  /\ kp_state.running_exes = <<2>>
  /\ \E id \in DOMAIN kp_state.markov :
       /\ kp_state.markov[id].a = 1 /\ kp_state.markov[id].b = 2
       /\ kp_state.markov[id].state = 2

\* C35: the two assertions of kp_state_free hold on every way to shutdown:
\* once g_hash_table_destroy has freed every exe, kp_state->maps and
\* maps_arr are empty; no map outlives the exemaps that referred to it.
C35_NoMapOutlivesItsExemaps ==
  (pc = "free" /\ kp_state.exes = {}) =>
    /\ kp_state.maps = {}
    /\ kp_state.maps_arr = <<>>
    /\ DOMAIN kp_state.mapobj = {}

\* every exe is freed and the assertions are next; three maps were
\* registered while the daemon ran
C35_Witness ==
  /\ pc = "free" /\ kp_state.exes = {}
  /\ kp_state.map_seq = 3
  /\ kp_state.exe_seq >= 2
  /\ kp_state.maps = {}

(***************************************************************************)
(* kp_markov_new(a, b, TRUE) on its own: two registered exes, running or   *)
(* not, whose change_timestamp lies before, at or after kp_state->time, is *)
(* zero or is the -1 of an exe read from a file.                           *)
(***************************************************************************)
\* exes 1 and 2 at time t with the change_timestamps ca and cb
NewMarkovCase(t, a_runs, b_runs, ca, cb) ==
  LET s0 == [EmptyState EXCEPT !.time = t, !.last_running_timestamp = t]
      s1 == kp_state_register_exe(kp_exe_new(s0, 1, a_runs, <<>>, 0), 1, FALSE)
      s2 == kp_state_register_exe(kp_exe_new(s1, 2, b_runs, <<>>, 0), 2, FALSE)
  IN [s2 EXCEPT !.exe[1].change_timestamp = ca, !.exe[2].change_timestamp = cb]

NewMarkovCasesAt(t) ==
  {NewMarkovCase(t, a_runs, b_runs, ca, cb) :
     a_runs \in BOOLEAN, b_runs \in BOOLEAN, ca \in -1 .. (t + 1), cb \in -1 .. (t + 1)}

InitMarkovNew ==
  /\ kp_state \in UNION {NewMarkovCasesAt(t) : t \in 1 .. MaxMarkovTime}
  /\ kp_conf \in Confs
  /\ pc = "call"
  /\ timers = NoTimers
  /\ stopping = FALSE
  /\ disk = [state |-> NoFile, tmp |-> NoFile, broken |-> NoFile]
  /\ fresh = FALSE
  /\ boots = 0
  /\ pending = <<>>
  /\ hung = ""
  /\ pause_state = PauseZero
  /\ pausefile = NoPauseFile
  /\ clock = 0
  /\ cycle_ops = <<>>
  /\ blacklist = BlacklistZero
  /\ blacklist_file = NoBlacklistFile
  /\ call = NoCall

\* kp_markov_new(a, b, TRUE)
MarkovNew ==
  /\ pc = "call"
  /\ kp_state' = kp_markov_new(kp_state, 1, 2, TRUE, 0)
  /\ pc' = "called"
  /\ UNCHANGED <<kp_conf, timers, stopping, disk, fresh, boots>>
  /\ UNCHANGED <<ctl, blacklist, aux>>

NextMarkovNew == MarkovNew

SpecMarkovNew == InitMarkovNew /\ [][NextMarkovNew]_vars

\* bit 0 of the state is set iff a runs and bit 1 iff b runs
StateIsActual(s, m) ==
  /\ m.state \in 0 .. 3
  /\ (m.state % 2 = 1) <=> exe_is_running(s, m.a)
  /\ ((m.state \div 2) % 2 = 1) <=> exe_is_running(s, m.b)

ChangedInTheFuture(s, m) ==
  /\ s.exe[m.a].change_timestamp > 0 /\ s.exe[m.b].change_timestamp > 0
  /\ s.exe[m.a].change_timestamp >= s.time
  /\ s.exe[m.a].change_timestamp > s.time \/ s.exe[m.b].change_timestamp > s.time

ReloadCall ==
  /\ pc = "run" /\ ~stopping
  /\ \E opens \in BOOLEAN :
       /\ blacklist' = kp_blacklist_reload(blacklist, blacklist_file, opens)
       /\ call' = [fn |-> "kp_blacklist_reload",
                   args |-> [found |-> blacklist_file.exists, opens |-> opens],
                   returned |-> TRUE, result |-> FALSE]
  /\ UNCHANGED <<kp_state, kp_conf, pc, timers, stopping, disk, fresh, boots>>
  /\ UNCHANGED <<ctl, blacklist_file>>

NextReload ==
  \/ StartCtl
  \/ ReloadCall
  \/ WriteBlacklist
  \/ RemoveBlacklist
  \/ Pass

SpecReload == InitBlacklist /\ [][NextReload]_vars

\* the last reload found no blacklist file
FoundMissing == call.fn = "kp_blacklist_reload" /\ ~call.args.found

\* C40: when the last reload found the blacklist file missing and the file
\* is there again, whatever its mtime, the next reload reads it: unless the
\* file cannot be opened, the entries it leaves are those of the file, so
\* they are not empty when the file has valid entries.
C40_ReloadAfterMissingRereads ==
  [][(/\ FoundMissing
      /\ blacklist_file.exists
      /\ ReloadStep
      /\ call'.args.opens)
     => blacklist'.entries = StrippedEntries(blacklist_file)]_vars

\* reloads that follow a missing file leave the entries of the file unless
\* the file is put back with the mtime of the last load
ReloadAfterMissingRereadsNewMtime ==
  [][(/\ FoundMissing
      /\ blacklist_file.exists
      /\ blacklist_file.mtime # blacklist.last_modified
      /\ ReloadStep
      /\ call'.args.opens)
     => blacklist'.entries = StrippedEntries(blacklist_file)]_vars

====
